---- MODULE Spec2Model ----
(***************************************************************************)
(* Model of the credential and session-lifecycle subsystem of              *)
(* websocketchat: TokenService (refresh-token store), the                  *)
(* AuthenticationService handlers (register, login, refreshTokens, logout, *)
(* logoutAll, changePassword), the UserRepository calls they make and the  *)
(* /api/auth routes' mapping of thrown messages to responses, the auth     *)
(* middleware of the two transports, the routes behind it, the socket      *)
(* event wrappers and validatePasswordStrength.                            *)
(*                                                                         *)
(* Every `await` on a prisma call is one atomic step of a call; the steps  *)
(* of different calls interleave freely.  A prisma call may throw (the     *)
(* code wraps each one in try/catch): FaultChoice injects that.            *)
(***************************************************************************)
EXTENDS Integers, Sequences, FiniteSets, TLC

\* ------------------------------------------------------------------ bounds
MaxCalls == 2
MaxOps == 3
MaxTime == 2
MaxFaults == 1
MaxClock == 4
MaxWireEvents == 3
MaxWireTime == 3000
MaxEventsTried == 2

\* Refresh-token lifetime, in the model's time unit of one week.
RefreshTtlWeeks == 1

\* JWT_ACCESS_EXPIRES_IN, fifteen minutes, in the clock's unit of five minutes.
\* The clock shows whole units: clock = n stands for every instant from n
\* units on and before n + 1 units, as jwt's whole seconds do.
AccessTtlUnits == 3

Calls == 1..MaxCalls
\* Token 0 stands for a string that generateRefreshToken never produced.
NoToken == 0
Emails == {"a@x", "b@x"}
UserIds == 1..Cardinality(Emails)

\* ---------------------------------------------------------------- passwords
StrongPass == <<"S", "t", "r", "0", "n", "g", "!", "z">>
OtherPass == <<"0", "t", "h", "e", "R", "#", "x", "y">>
WeakPass == <<"a", "b", "c">>
\* What the clients of a run type in: at register, and at login.
RegisterPasswords == {StrongPass, WeakPass}
LoginPasswords == {StrongPass, OtherPass}

LowerChars == <<"a", "b", "c", "d", "e", "f", "g", "h", "i", "j", "k", "l", "m",
                "n", "o", "p", "q", "r", "s", "t", "u", "v", "w", "x", "y", "z">>
UpperChars == <<"A", "B", "C", "D", "E", "F", "G", "H", "I", "J", "K", "L", "M",
                "N", "O", "P", "Q", "R", "S", "T", "U", "V", "W", "X", "Y", "Z">>
DigitChars == {"0", "1", "2", "3", "4", "5", "6", "7", "8", "9"}
SpecialChars == {"!", "@", "#", "$", "%", "^", "&", "*", "(", ")", "_", "+", "-",
                 "=", "[", "]", "{", "}", ";", "'", ":", "\"", "\\", "|", ",", ".",
                 "<", ">", "/", "?"}

Range(s) == {s[i] : i \in DOMAIN s}

\* The /i flag of the deny-list regex: compare lower-cased.
ToLower(c) ==
    IF \E i \in DOMAIN UpperChars : UpperChars[i] = c
    THEN LowerChars[CHOOSE i \in DOMAIN UpperChars : UpperChars[i] = c]
    ELSE c

LowerSeq(s) == [i \in DOMAIN s |-> ToLower(s[i])]

\* String.prototype.includes / an unanchored regex literal: pat occurs in s.
Includes(s, pat) ==
    \E i \in 0..(Len(s) - Len(pat)) :
        \A j \in 1..Len(pat) : s[i + j] = pat[j]

WeakPatterns ==
    { <<"1", "2", "3">>, <<"a", "b", "c">>, <<"q", "w", "e">>,
      <<"p", "a", "s", "s", "w", "o", "r", "d">>, <<"a", "d", "m", "i", "n">> }

MinPasswordLen == 8
MaxPasswordLen == 128

\* A validation that reports the first rule broken and stops.
PasswordErrorsFirstOnly(password) ==
    IF Len(password) < MinPasswordLen THEN <<"min-length">>
    ELSE IF Len(password) > MaxPasswordLen THEN <<"max-length">>
    ELSE IF Range(password) \cap Range(LowerChars) = {} THEN <<"lowercase">>
    ELSE IF Range(password) \cap Range(UpperChars) = {} THEN <<"uppercase">>
    ELSE IF Range(password) \cap DigitChars = {} THEN <<"number">>
    ELSE IF Range(password) \cap SpecialChars = {} THEN <<"special">>
    ELSE IF \E i \in 1..(Len(password) - 2) :
                password[i] = password[i + 1] /\ password[i] = password[i + 2]
         THEN <<"repeated">>
    ELSE IF \E pat \in WeakPatterns : Includes(LowerSeq(password), pat)
         THEN <<"common-pattern">>
    ELSE <<>>

\* validatePasswordStrength: every rule is evaluated; errors in push order.
PasswordErrors(password) ==
    (IF Len(password) < MinPasswordLen THEN <<"min-length">> ELSE <<>>)
    \o (IF Len(password) > MaxPasswordLen THEN <<"max-length">> ELSE <<>>)
    \o (IF Range(password) \cap Range(LowerChars) = {} THEN <<"lowercase">> ELSE <<>>)
    \o (IF Range(password) \cap Range(UpperChars) = {} THEN <<"uppercase">> ELSE <<>>)
    \o (IF Range(password) \cap DigitChars = {} THEN <<"number">> ELSE <<>>)
    \o (IF Range(password) \cap SpecialChars = {} THEN <<"special">> ELSE <<>>)
    \o (IF \E i \in 1..(Len(password) - 2) :
              password[i] = password[i + 1] /\ password[i] = password[i + 2]
        THEN <<"repeated">> ELSE <<>>)
    \o (IF \E pat \in WeakPatterns : Includes(LowerSeq(password), pat)
        THEN <<"common-pattern">> ELSE <<>>)

validatePasswordStrength(password) ==
    [isValid |-> PasswordErrors(password) = <<>>, errors |-> PasswordErrors(password)]

\* The passwords of the service's test suite, character by character.
PwShort == <<"S", "h", "o", "r", "t", "1", "!">>
PwUppercase == <<"U", "P", "P", "E", "R", "C", "A", "S", "E", "1", "2", "3", "!">>
PwLowercase == <<"l", "o", "w", "e", "r", "c", "a", "s", "e", "1", "2", "3", "!">>
PwNoNumbers == <<"N", "o", "N", "u", "m", "b", "e", "r", "s", "!">>
PwNoSpecial == <<"N", "o", "S", "p", "e", "c", "i", "a", "l", "1", "2", "3">>
PwRepeated == <<"P", "a", "s", "s", "s", "w", "o", "r", "d", "1", "2", "3", "!">>
PwCommon == <<"P", "a", "s", "s", "w", "o", "r", "d", "1", "2", "3", "!">>
PwStrong == <<"S", "t", "r", "o", "n", "g", "P", "a", "s", "s", "1", "2", "3", "!">>
\* "A".repeat(129) + "1!"
PwTooLong == [i \in 1..129 |-> "A"] \o <<"1", "!">>

\* Those the suite expects to be refused, and the one it expects accepted.
RefusedPasswords ==
    {PwShort, PwTooLong, PwUppercase, PwLowercase, PwNoNumbers, PwNoSpecial,
     PwRepeated, PwCommon}
ListedPasswords == RefusedPasswords \cup {PwStrong}

\* Passwords put together from parts, one part per rule: a lowercase letter,
\* an uppercase letter, a digit, a symbol, a run of three blanks, a
\* deny-listed word, and blanks and tildes (neither is in any character
\* class) up to a length.
PatternParts ==
    {<<>>, <<"1", "2", "3">>, <<"A", "B", "C">>, <<"q", "w", "e">>,
     <<"a", "D", "m", "I", "n">>}
LengthsTried == {0, MinPasswordLen - 1, MinPasswordLen, MaxPasswordLen, MaxPasswordLen + 1}

Part(b, part) == IF b THEN part ELSE <<>>

Padding(n) == [i \in 1..n |-> IF i % 2 = 1 THEN "~" ELSE " "]

BuiltPassword(l, u, d, sp, rp, pat, n) ==
    LET core == Part(l, <<"x">>) \o Part(u, <<"Y">>) \o Part(d, <<"7">>)
                \o Part(sp, <<"!">>) \o Part(rp, <<" ", " ", " ">>) \o pat
    IN  core \o Padding(IF n > Len(core) THEN n - Len(core) ELSE 0)

\* bcrypt.hash: the stored value is not the plaintext (the random salt is left out).
hashPassword(password) == <<"bcrypt", password>>

\* bcrypt.compare
verifyPassword(password, hash) == hash = <<"bcrypt", password>>

\* ----------------------------------------------------------- error messages
\* Thrown Error messages, as word sequences so that includes() is computed.
MsgOk == <<"ok">>
MsgInvalidRefresh == <<"Invalid", "refresh", "token">>
MsgTokenNotFound == <<"Refresh", "token", "not", "found">>
MsgTokenRevoked == <<"Refresh", "token", "has", "been", "revoked">>
MsgTokenExpired == <<"Refresh", "token", "has", "expired">>
MsgStoreFailed == <<"Failed", "to", "store", "refresh", "token">>
MsgRevokeFailed == <<"Failed", "to", "revoke", "refresh", "token">>
MsgRotateFailed == <<"Failed", "to", "rotate", "refresh", "token">>
MsgRevokeAllFailed == <<"Failed", "to", "revoke", "all", "user", "tokens">>
MsgInvalidCredentials == <<"Invalid", "credentials">>
MsgDeactivated == <<"Account", "is", "deactivated">>
MsgUserNotFound == <<"User", "not", "found">>
MsgEmailRegistered == <<"Email", "already", "registered">>
MsgEmailExists == <<"Email", "already", "exists">>
MsgCreateFailed == <<"Failed", "to", "create", "user">>
MsgWeakPassword == <<"Password", "validation", "failed", ":">>
MsgCurrentIncorrect == <<"Current", "password", "is", "incorrect">>
MsgFindEmailFailed == <<"Failed", "to", "find", "user", "by", "email">>
MsgFindIdFailed == <<"Failed", "to", "find", "user", "by", "ID">>
MsgExistsFailed == <<"Failed", "to", "check", "if", "user", "exists">>
MsgLastLoginFailed == <<"Failed", "to", "update", "last", "login">>
MsgUpdatePwFailed == <<"Failed", "to", "update", "user", "password">>
MsgDbFault == <<"prisma", "error">>

\* ------------------------------------------------------------ access tokens
MsgInvalidToken == <<"Invalid", "token">>
MsgAccessExpired == <<"Token", "expired">>
MsgVerifyFailed == <<"Token", "verification", "failed">>

\* What an extractor returns when it finds nothing: null.
NoAccessToken == [userId |-> 0, iat |-> 0, sig |-> "none"]

\* The empty string, as the header "Bearer " carries.
EmptyToken == [userId |-> 0, iat |-> 0, sig |-> "empty"]

\* A string that is no JWT.
GarbageToken == [userId |-> 0, iat |-> 0, sig |-> "malformed"]

\* A JWT with the claims of an account, signed with another secret.
ForgedToken == [userId |-> 1, iat |-> 0, sig |-> "forged"]

\* generateAccessToken(userId, email), signed at time t
generateAccessToken(u, t) == [userId |-> u, iat |-> t, sig |-> "good"]

\* if (token): null and "" are falsy
Truthy(tok) == tok.sig \notin {"none", "empty"}

\* An exp claim that allows some grace after the configured lifetime.
ExpiresWithGrace(tok) == tok.iat + AccessTtlUnits + 2

\* The exp claim jwt.sign writes: iat + expiresIn
Expires(tok) == tok.iat + AccessTtlUnits

\* jwt.verify(token, JWT_SECRET, { issuer, audience }) at time t: the class of
\* the error it throws, "none" when it returns the payload.  The signature is
\* checked before exp; exp is past when the clock has reached it.
JwtVerify(tok, t) ==
    IF tok.sig \in {"none", "empty", "malformed", "forged"} THEN "JsonWebTokenError"
    ELSE IF t >= Expires(tok) THEN "TokenExpiredError"
    ELSE "none"

\* error instanceof cls.  jsonwebtoken's TokenExpiredError has
\* JsonWebTokenError.prototype as its prototype's prototype.
InstanceOf(err, cls) ==
    \/ err = cls
    \/ err = "TokenExpiredError" /\ cls = "JsonWebTokenError"

\* verifyAccessToken: the message it throws (<<>>: it returns the payload)
verifyAccessToken(tok, t) ==
    LET err == JwtVerify(tok, t)
    IN  IF err = "none" THEN <<>>
        ELSE IF InstanceOf(err, "JsonWebTokenError") THEN MsgInvalidToken
        ELSE IF InstanceOf(err, "TokenExpiredError") THEN MsgAccessExpired
        ELSE MsgVerifyFailed

\* extractTokenFromHeader; h is authHeader.split(" "), <<>> for no header
extractTokenFromHeader(h) ==
    IF h = <<>> THEN NoAccessToken
    ELSE IF Len(h) # 2 \/ h[1] # "Bearer" THEN NoAccessToken
    ELSE h[2]

\* extractToken(req): header, then query parameter, then cookie
extractToken(req) ==
    IF Truthy(extractTokenFromHeader(req.header)) THEN extractTokenFromHeader(req.header)
    ELSE IF Truthy(req.query) THEN req.query
    ELSE IF Truthy(req.cookie) THEN req.cookie
    ELSE NoAccessToken

\* extractTokenFromSocket(socket): handshake.auth.token, then query parameter,
\* then Authorization header, then cookie
extractTokenFromSocket(hs) ==
    IF Truthy(hs.auth) THEN hs.auth
    ELSE IF Truthy(hs.query) THEN hs.query
    ELSE IF hs.header # <<>> /\ Len(hs.header) = 2 /\ hs.header[1] = "Bearer"
         THEN hs.header[2]
    ELSE IF Truthy(hs.cookie) THEN hs.cookie
    ELSE NoAccessToken

\* A requireAuth whose catch lets the request through when the token's user
\* is not found.
RequireAuthResponseOpen(tok, msg) ==
    IF ~Truthy(tok) THEN [status |-> 401, code |-> "MISSING_TOKEN"]
    ELSE IF msg = <<>> \/ Includes(msg, MsgUserNotFound) THEN [status |-> 200, code |-> "OK"]
    ELSE IF Includes(msg, MsgInvalidToken) \/ Includes(msg, MsgAccessExpired)
    THEN [status |-> 401, code |-> "INVALID_TOKEN"]
    ELSE IF Includes(msg, MsgDeactivated)
    THEN [status |-> 403, code |-> "ACCOUNT_DEACTIVATED"]
    ELSE [status |-> 500, code |-> "AUTH_ERROR"]

\* requireAuth: the response (200: next() was called), from the extracted
\* token and the message validateUserToken threw
RequireAuthResponse(tok, msg) ==
    IF ~Truthy(tok) THEN [status |-> 401, code |-> "MISSING_TOKEN"]
    ELSE IF msg = <<>> THEN [status |-> 200, code |-> "OK"]
    ELSE IF Includes(msg, MsgInvalidToken) \/ Includes(msg, MsgAccessExpired)
    THEN [status |-> 401, code |-> "INVALID_TOKEN"]
    ELSE IF Includes(msg, MsgUserNotFound)
    THEN [status |-> 401, code |-> "USER_NOT_FOUND"]
    ELSE IF Includes(msg, MsgDeactivated)
    THEN [status |-> 403, code |-> "ACCOUNT_DEACTIVATED"]
    ELSE [status |-> 500, code |-> "AUTH_ERROR"]

\* authenticateSocket: the data.code of the error given to next ("OK": none);
\* a handshake has no status
SocketAuthResponse(tok, msg) ==
    IF ~Truthy(tok) THEN [status |-> 0, code |-> "MISSING_TOKEN"]
    ELSE IF msg = <<>> THEN [status |-> 0, code |-> "OK"]
    ELSE IF Includes(msg, MsgInvalidToken) \/ Includes(msg, MsgAccessExpired)
    THEN [status |-> 0, code |-> "INVALID_TOKEN"]
    ELSE IF Includes(msg, MsgUserNotFound)
    THEN [status |-> 0, code |-> "USER_NOT_FOUND"]
    ELSE IF Includes(msg, MsgDeactivated)
    THEN [status |-> 0, code |-> "ACCOUNT_DEACTIVATED"]
    ELSE [status |-> 0, code |-> "AUTH_ERROR"]

\* ------------------------------------------------------------------ routes
\* POST /api/auth/login: the response, from the message login threw
LoginResponse(msg) ==
    IF msg = MsgOk
    THEN [status |-> 200, code |-> "OK", message |-> "Login successful"]
    ELSE IF Includes(msg, MsgInvalidCredentials)
    THEN [status |-> 401, code |-> "INVALID_CREDENTIALS",
          message |-> "Invalid email or password"]
    ELSE IF Includes(msg, MsgDeactivated)
    THEN [status |-> 403, code |-> "ACCOUNT_DEACTIVATED",
          message |-> "Your account has been deactivated"]
    ELSE [status |-> 500, code |-> "LOGIN_FAILED", message |-> "Failed to login"]

\* POST /api/auth/refresh: the response, from the message refreshTokens threw
RefreshResponse(msg) ==
    IF msg = MsgOk
    THEN [status |-> 200, code |-> "OK", message |-> "Tokens refreshed successfully"]
    ELSE IF \/ Includes(msg, MsgInvalidRefresh)
            \/ Includes(msg, <<"Token", "expired">>)
            \/ Includes(msg, <<"Token", "has", "been", "revoked">>)
    THEN [status |-> 401, code |-> "INVALID_REFRESH_TOKEN",
          message |-> "Invalid or expired refresh token"]
    ELSE IF Includes(msg, MsgDeactivated)
    THEN [status |-> 403, code |-> "ACCOUNT_DEACTIVATED",
          message |-> "Your account has been deactivated"]
    ELSE [status |-> 500, code |-> "TOKEN_REFRESH_FAILED",
          message |-> "Failed to refresh tokens"]

\* POST /api/auth/register: the response, from the message register threw
RegisterResponse(msg) ==
    IF msg = MsgOk
    THEN [status |-> 201, code |-> "OK", message |-> "User registered successfully"]
    ELSE IF Includes(msg, MsgEmailRegistered)
    THEN [status |-> 409, code |-> "EMAIL_ALREADY_EXISTS",
          message |-> "An account with this email already exists"]
    ELSE IF Includes(msg, <<"Password", "validation", "failed">>)
    THEN [status |-> 400, code |-> "WEAK_PASSWORD", message |-> "Password validation failed"]
    ELSE [status |-> 500, code |-> "REGISTRATION_FAILED",
          message |-> "Failed to register user"]

\* POST /api/auth/logout: the response; the handler's catch answers as its try does
LogoutResponse(msg) ==
    IF msg = MsgOk
    THEN [status |-> 200, success |-> TRUE, message |-> "Logged out successfully"]
    ELSE [status |-> 200, success |-> TRUE, message |-> "Logged out successfully"]

\* ------------------------------------------------------------------- state
VARIABLES
    users,      \* prisma.user: id -> [email, password, isActive]
    sessions,   \* prisma.refreshToken: set of [token, userId, expiresAt, isRevoked]
    now,        \* new Date(), in weeks
    nextToken,  \* generateRefreshToken: the next value crypto.randomBytes yields
    faults,     \* prisma calls that may still throw in this run
    call,       \* the in-flight service calls, one record per slot
    last,       \* the call that returned most recently, with what it returned
    issued,     \* history: token -> [owner, parent, given, iat] for every token ever stored
    hist,       \* history: sets of tokens, by what has happened to them
    ops,        \* service calls started so far
    clock,      \* the time of day, in the unit of AccessTtlUnits
    gate,       \* the request or handshake the auth middleware handled last
    resp,       \* the response a route handler sent last, and what it did
    wire,       \* the socket event wrappers: limiter Map, Date.now(), events so far
    pwd         \* the password validatePasswordStrength was given last, and its result

vars ==
    <<users, sessions, now, nextToken, faults, call, last, issued, hist, ops, clock, gate,
      resp, wire, pwd>>

\* A slot with no call in flight.
Idle ==
    [op |-> "none", pc |-> "idle", tok |-> NoToken, uid |-> 0, email |-> "",
     pw |-> <<>>, out |-> NoToken, cause |-> <<>>, flags |-> {}]

\* Before any call has returned.
NoResult ==
    [op |-> "none", tok |-> NoToken, uid |-> 0, res |-> <<>>, out |-> NoToken,
     cause |-> <<>>, flags |-> {}, faulted |-> FALSE]

\* Before the auth middleware has handled anything.
NoGate ==
    [transport |-> "none", token |-> NoAccessToken, agree |-> TRUE, facts |-> {},
     error |-> <<>>, status |-> 0, code |-> "", user |-> 0]

\* Before any route handler has answered.
NoResponse ==
    [route |-> "none", status |-> 0, code |-> "", caller |-> 0, target |-> 0,
     touched |-> FALSE, facts |-> {}]

\* Before any socket event has reached a wrapped handler.
NoEvent ==
    [wrapper |-> "none", socket |-> 0, isAuthenticated |-> "undefined", user |-> 0,
     invoked |-> FALSE, emitted |-> <<>>, retryAfter |-> 0]

\* Before rateLimitSocket has been called and before any event has arrived.
NoWire ==
    [made |-> FALSE, maxEvents |-> 0, windowMs |-> 0, limits |-> <<>>, time |-> 0,
     log |-> <<>>, event |-> NoEvent]

\* Before validatePasswordStrength has been called.
NoPassword ==
    [checked |-> FALSE, input |-> <<>>, isValid |-> FALSE, errors |-> <<>>]

Init ==
    /\ users = <<>>
    /\ sessions = {}
    /\ now = 0
    /\ nextToken = 1
    /\ faults = MaxFaults
    /\ call = [p \in Calls |-> Idle]
    /\ last = NoResult
    /\ issued = <<>>
    /\ hist = [loggedOutAll |-> {}, pwChanged |-> {}]
    /\ ops = 0
    /\ clock = 0
    /\ gate = NoGate
    /\ resp = NoResponse
    /\ wire = NoWire
    /\ pwd = NoPassword

\* ------------------------------------------------------------ store helpers
\* A prisma call either answers or throws; at most MaxFaults throw in a run.
FaultChoice == IF faults > 0 THEN {FALSE, TRUE} ELSE {FALSE}

CountFault(f) == faults' = IF f THEN faults - 1 ELSE faults

\* prisma.refreshToken.findUnique({ where: { token } })
HasRow(t) == \E r \in sessions : r.token = t

Row(t) == CHOOSE r \in sessions : r.token = t

\* prisma.user.findUnique({ where: { email } })
HasEmail(e) == \E u \in DOMAIN users : users[u].email = e

UserByEmail(e) == CHOOSE u \in DOMAIN users : users[u].email = e

\* The account's row is gone: a create that refers to it breaks the foreign
\* key, an update of it finds no row, and prisma throws.
UserGone(u) == u \notin DOMAIN users

\* refreshToken.expiresAt < new Date()
Expired(r, t) == r.expiresAt < t

\* VALID: unrevoked and unexpired
Valid(r) == ~r.isRevoked /\ ~Expired(r, now)

\* validateRefreshToken's three throws inside its try block (<<>> when none)
ValidateCause(t) ==
    IF ~HasRow(t) THEN MsgTokenNotFound
    ELSE IF Row(t).isRevoked THEN MsgTokenRevoked
    ELSE IF Expired(Row(t), now) THEN MsgTokenExpired
    ELSE <<>>

\* A validateRefreshToken without its catch: the thrown message leaves as it is.
ValidateErrorUncaught(cause) == cause

\* validateRefreshToken's catch: whatever was thrown, the caller sees one message.
ValidateError(cause) == MsgInvalidRefresh

\* An update that flips the flag instead of setting it.
RevokedRowFlipped(r) == [r EXCEPT !.isRevoked = ~@]

\* data: { isRevoked: true }
RevokedRow(r) == [r EXCEPT !.isRevoked = TRUE]

\* An update whose where clause matches no row.
RevokeOneNoMatch(t) == sessions

\* An update without a where clause: every row is revoked.
RevokeOneAndOthers(t) == {RevokedRow(r) : r \in sessions}

\* revokeRefreshToken's update where { token }
RevokeOne(t) == {IF r.token = t THEN RevokedRow(r) ELSE r : r \in sessions}

\* An updateMany whose where clause has the comparison inverted.
RevokeAllOfOthers(u) == {IF r.userId # u THEN RevokedRow(r) ELSE r : r \in sessions}

\* revokeAllUserTokens' updateMany where { userId }
RevokeAllOf(u) == {IF r.userId = u THEN RevokedRow(r) ELSE r : r \in sessions}

\* A create that writes the row under the first account, whoever asked.
NewRowOfFirstUser(u, t) ==
    [token |-> t, userId |-> 1, expiresAt |-> now + RefreshTtlWeeks, isRevoked |-> FALSE]

\* storeRefreshToken's create: expiresAt is seven days from now
NewRow(u, t) ==
    [token |-> t, userId |-> u, expiresAt |-> now + RefreshTtlWeeks, isRevoked |-> FALSE]

\* cleanupExpiredTokens' deleteMany where OR [expiresAt < now, isRevoked]
Purgeable(r) == Expired(r, now) \/ r.isRevoked

\* Tokens that a successful refreshTokens call has rotated away.
RotatedOut == {issued[t].parent : t \in DOMAIN issued} \ {NoToken}

\* What had already happened to token t, noted when a refresh call reads it.
FlagsOf(t) ==
    {k \in {"loggedOutAll", "pwChanged"} : t \in hist[k]}
    \cup (IF t \in RotatedOut THEN {"rotatedOut"} ELSE {})

\* A new call takes the lowest slot that has no call in flight.
Free(p) ==
    /\ call[p].pc = "idle"
    /\ \A q \in Calls : q < p => call[q].pc # "idle"

\* A run holds at most MaxOps calls of the service.
Counted ==
    /\ ops < MaxOps
    /\ ops' = ops + 1

\* A service call starts.
Started ==
    /\ Counted
    /\ UNCHANGED <<clock, gate, resp, wire, pwd>>

\* The call in slot p, whose record is c, goes on to its next await.
Goto(p, c) ==
    /\ call' = [call EXCEPT ![p] = c]
    /\ UNCHANGED last

\* What the caller of a call with record c gets back: msg is MsgOk or the
\* message of the Error thrown; f tells whether a prisma call of this step threw.
Result(c, msg, f) ==
    [op |-> c.op, tok |-> c.tok, uid |-> c.uid, res |-> msg,
     out |-> IF msg = MsgOk THEN c.out ELSE NoToken,
     cause |-> c.cause,
     flags |-> c.flags \cup (IF c.op = "refresh" /\ c.cause = <<>> /\ c.tok \in RotatedOut
                             THEN {"lostRace"} ELSE {}),
     faulted |-> f]

\* The call in slot p, whose record is c, returns.
Return(p, c, msg, f) ==
    /\ call' = [call EXCEPT ![p] = Idle]
    /\ last' = Result(c, msg, f)

\* A call of a single await runs and returns in one step; it needs no slot.
Answer(c, msg, f) ==
    /\ last' = Result(c, msg, f)
    /\ UNCHANGED call

\* A token a client can present: one that a call has returned to its caller,
\* or a made-up string, which no row holds.
Presentable == {NoToken} \cup {t \in DOMAIN issued : issued[t].given}

\* A fresh row and its history entry; generateRefreshToken never repeats a value.
\* given tells whether the caller has the token yet; iat is the time at which
\* generateAccessToken signed the access token that is returned with it.
StoreToken(u, parent, given) ==
    /\ sessions' = sessions \cup {NewRow(u, nextToken)}
    /\ issued' = issued @@ (nextToken :> [owner |-> u, parent |-> parent, given |-> given,
                                          iat |-> clock])
    /\ nextToken' = nextToken + 1

\* The AuthResult reaches the caller, and its refresh token with it.
GiveToken(t, ok) ==
    issued' = IF ok THEN [issued EXCEPT ![t].given = TRUE] ELSE issued

\* ------------------------------------------------------------ refreshTokens
\* rotateRefreshToken's catch: whatever was thrown inside, one message leaves.
RotateError(inner) == MsgRotateFailed

\* refreshTokens, first await: validateRefreshToken(refreshToken)
RefreshValidate(p, t) ==
    /\ Started
    /\ Free(p)
    /\ \E f \in FaultChoice :
        LET cause == IF f THEN MsgDbFault ELSE ValidateCause(t)
            c == [Idle EXCEPT !.op = "refresh", !.tok = t, !.flags = FlagsOf(t),
                              !.cause = cause]
        IN  /\ CountFault(f)
            /\ IF cause # <<>>
               THEN Return(p, c, ValidateError(cause), f)
               ELSE Goto(p, [c EXCEPT !.pc = "r_user", !.uid = Row(t).userId])
    /\ UNCHANGED <<users, sessions, now, nextToken, issued, hist>>

\* A refreshTokens that does not look at user.isActive.
RefreshOwnerErrorNoActive(u) ==
    IF u \notin DOMAIN users THEN MsgUserNotFound ELSE <<>>

\* refreshTokens after findUserById: `if (!user)`, then `if (!user.isActive)`
RefreshOwnerError(u) ==
    IF u \notin DOMAIN users THEN MsgUserNotFound
    ELSE IF ~users[u].isActive THEN MsgDeactivated
    ELSE <<>>

\* What findUserById found when a refreshTokens call read the token's account.
OwnerFlags(u) ==
    IF u \notin DOMAIN users THEN {"missingOwner"}
    ELSE IF ~users[u].isActive THEN {"inactiveOwner"}
    ELSE {}

\* refreshTokens, second await: findUserById and the isActive check
RefreshFindUser(p) ==
    /\ UNCHANGED <<ops, clock, gate, resp, wire, pwd>>
    /\ call[p].pc = "r_user"
    /\ \E f \in FaultChoice :
        LET u == call[p].uid
            msg == IF f THEN MsgFindIdFailed ELSE RefreshOwnerError(u)
            c == IF f THEN call[p]
                 ELSE [call[p] EXCEPT !.flags = @ \cup OwnerFlags(u)]
        IN  /\ CountFault(f)
            /\ IF msg # <<>>
               THEN Return(p, c, msg, f)
               ELSE Goto(p, [c EXCEPT !.pc = "r_revoke"])
    /\ UNCHANGED <<users, sessions, now, nextToken, issued, hist>>

\* rotateRefreshToken, first await: revokeRefreshToken(oldToken).  prisma's update
\* throws when no row has the token; it does not look at the row's isRevoked.
RefreshRevoke(p) ==
    /\ UNCHANGED <<ops, clock, gate, resp, wire, pwd>>
    /\ call[p].pc = "r_revoke"
    /\ \E f \in FaultChoice :
        /\ CountFault(f)
        /\ IF f \/ ~HasRow(call[p].tok)
           THEN /\ Return(p, [call[p] EXCEPT !.flags = @ \cup (IF f THEN {} ELSE {"rowMissing"})],
                          RotateError(MsgRevokeFailed), f)
                /\ UNCHANGED sessions
           ELSE /\ sessions' = RevokeOne(call[p].tok)
                /\ Goto(p, [call[p] EXCEPT !.pc = "r_store",
                                           !.flags = @ \cup {"revokedOld"}])
    /\ UNCHANGED <<users, now, nextToken, issued, hist>>

\* rotateRefreshToken, second await: storeRefreshToken(userId, newToken), then
\* refreshTokens returns { user, accessToken, refreshToken: newRefreshToken }.
RefreshStore(p) ==
    /\ UNCHANGED <<ops, clock, gate, resp, wire, pwd>>
    /\ call[p].pc = "r_store"
    /\ \E f \in FaultChoice :
        /\ CountFault(f)
        /\ IF f \/ UserGone(call[p].uid)
           THEN /\ Return(p, call[p], RotateError(MsgStoreFailed), f)
                /\ UNCHANGED <<sessions, issued, nextToken>>
           ELSE /\ StoreToken(call[p].uid, call[p].tok, TRUE)
                /\ Return(p, [call[p] EXCEPT !.out = nextToken], MsgOk, FALSE)
    /\ UNCHANGED <<users, now, hist>>

\* ------------------------------------------------------------------- login
\* What login decides from the row findUserByEmail returned (<<>>: go on).
LoginCheck(e, pw) ==
    IF ~HasEmail(e) THEN MsgInvalidCredentials
    ELSE IF ~users[UserByEmail(e)].isActive THEN MsgDeactivated
    ELSE IF ~verifyPassword(pw, users[UserByEmail(e)].password)
         THEN MsgInvalidCredentials
    ELSE <<>>

\* The facts of a login attempt: is the email registered, is the password the
\* account's, is the account active.
LoginFacts(e, pw) ==
    IF ~HasEmail(e) THEN <<"unknown-email">>
    ELSE << "known-email",
            IF verifyPassword(pw, users[UserByEmail(e)].password)
            THEN "right-password" ELSE "wrong-password",
            IF users[UserByEmail(e)].isActive THEN "active" ELSE "inactive" >>

\* login up to its first store write: findUserByEmail, isActive, verifyPassword
LoginFind(p, e, pw) ==
    /\ Started
    /\ Free(p)
    /\ \E f \in FaultChoice :
        LET msg == IF f THEN MsgFindEmailFailed ELSE LoginCheck(e, pw)
            c == [Idle EXCEPT !.op = "login", !.email = e,
                              !.cause = IF f THEN MsgDbFault ELSE LoginFacts(e, pw)]
        IN  /\ CountFault(f)
            /\ IF msg # <<>>
               THEN Return(p, c, msg, f)
               ELSE Goto(p, [c EXCEPT !.pc = "l_store", !.uid = UserByEmail(e)])
    /\ UNCHANGED <<users, sessions, now, nextToken, issued, hist>>

\* login: storeRefreshToken(user.id, refreshToken)
LoginStore(p) ==
    /\ UNCHANGED <<ops, clock, gate, resp, wire, pwd>>
    /\ call[p].pc = "l_store"
    /\ \E f \in FaultChoice :
        /\ CountFault(f)
        /\ IF f \/ UserGone(call[p].uid)
           THEN /\ Return(p, call[p], MsgStoreFailed, f)
                /\ UNCHANGED <<sessions, issued, nextToken>>
           ELSE /\ StoreToken(call[p].uid, NoToken, FALSE)
                /\ Goto(p, [call[p] EXCEPT !.pc = "l_last", !.out = nextToken])
    /\ UNCHANGED <<users, now, hist>>

\* login: updateLastLogin(user.id), then the AuthResult is returned.  The
\* lastLoginAt it writes is read by no operation and is not kept.
LoginLast(p) ==
    /\ UNCHANGED <<ops, clock, gate, resp, wire, pwd>>
    /\ call[p].pc = "l_last"
    /\ \E f \in FaultChoice :
        /\ CountFault(f)
        /\ Return(p, call[p],
                  IF f \/ UserGone(call[p].uid) THEN MsgLastLoginFailed ELSE MsgOk, f)
        /\ GiveToken(call[p].out, ~f /\ ~UserGone(call[p].uid))
    /\ UNCHANGED <<users, sessions, now, nextToken, hist>>

\* ---------------------------------------------------------------- register
\* The ids that calls have read from rows of the store: those of the calls
\* in flight, and that of the call that returned last unless it was given an
\* id by its caller and found no row for it.
HeldUserIds ==
    {call[p].uid : p \in Calls}
    \cup (IF last.op \in {"register", "login", "refresh"}
              \/ (last.op = "changePassword" /\ "known-account" \in Range(last.cause))
           THEN {last.uid} ELSE {})

\* The id createUser gives a new row: one no account has had.
NewUserId ==
    LET used == DOMAIN users \cup {issued[t].owner : t \in DOMAIN issued} \cup HeldUserIds
    IN  1 + (CHOOSE m \in used \cup {0} : \A x \in used : x <= m)

\* register up to its first store write: validatePasswordStrength (before any
\* await), then userExists(email)
RegisterCheck(p, e, pw) ==
    /\ Started
    /\ Free(p)
    /\ LET c == [Idle EXCEPT !.op = "register", !.email = e]
       IN  IF ~validatePasswordStrength(pw).isValid
           THEN /\ Return(p, c, MsgWeakPassword \o validatePasswordStrength(pw).errors, FALSE)
                /\ UNCHANGED faults
           ELSE \E f \in FaultChoice :
                /\ CountFault(f)
                /\ IF f THEN Return(p, c, MsgExistsFailed, TRUE)
                   ELSE IF HasEmail(e) THEN Return(p, c, MsgEmailRegistered, FALSE)
                   ELSE Goto(p, [c EXCEPT !.pc = "g_create", !.pw = pw])
    /\ UNCHANGED <<users, sessions, now, nextToken, issued, hist>>

\* register: hashPassword, then createUser; the email column is unique (P2002)
RegisterCreate(p) ==
    /\ UNCHANGED <<ops, clock, gate, resp, wire, pwd>>
    /\ call[p].pc = "g_create"
    /\ \E f \in FaultChoice :
        LET id == NewUserId
        IN  /\ CountFault(f)
            /\ IF f \/ HasEmail(call[p].email)
               THEN /\ Return(p, call[p], IF f THEN MsgCreateFailed ELSE MsgEmailExists, f)
                    /\ UNCHANGED users
               ELSE /\ users' = users @@ (id :> [email |-> call[p].email,
                                                password |-> hashPassword(call[p].pw),
                                                isActive |-> TRUE])
                    /\ Goto(p, [call[p] EXCEPT !.pc = "g_store", !.uid = id, !.pw = <<>>])
    /\ UNCHANGED <<sessions, now, nextToken, issued, hist>>

\* register: storeRefreshToken(user.id, refreshToken)
RegisterStore(p) ==
    /\ UNCHANGED <<ops, clock, gate, resp, wire, pwd>>
    /\ call[p].pc = "g_store"
    /\ \E f \in FaultChoice :
        /\ CountFault(f)
        /\ IF f \/ UserGone(call[p].uid)
           THEN /\ Return(p, call[p], MsgStoreFailed, f)
                /\ UNCHANGED <<sessions, issued, nextToken>>
           ELSE /\ StoreToken(call[p].uid, NoToken, FALSE)
                /\ Goto(p, [call[p] EXCEPT !.pc = "g_last", !.out = nextToken])
    /\ UNCHANGED <<users, now, hist>>

\* register: updateLastLogin(user.id), then the AuthResult is returned
RegisterLast(p) ==
    /\ UNCHANGED <<ops, clock, gate, resp, wire, pwd>>
    /\ call[p].pc = "g_last"
    /\ \E f \in FaultChoice :
        /\ CountFault(f)
        /\ Return(p, call[p],
                  IF f \/ UserGone(call[p].uid) THEN MsgLastLoginFailed ELSE MsgOk, f)
        /\ GiveToken(call[p].out, ~f /\ ~UserGone(call[p].uid))
    /\ UNCHANGED <<users, sessions, now, nextToken, hist>>

\* ------------------------------------------------------- logout, logoutAll
\* What revokeRefreshToken(t) throws (<<>>: nothing): prisma's update throws
\* when the store fails (f) and when no row has the token.
RevokeError(t, f) == IF f \/ ~HasRow(t) THEN MsgRevokeFailed ELSE <<>>

\* A logout whose catch rethrows what it caught.
LogoutErrorRethrown(inner) == inner

\* logout's catch: the error is logged and not rethrown; logout returns.
LogoutError(inner) == MsgOk

\* logout: revokeRefreshToken inside try/catch
Logout(t) ==
    /\ Started
    /\ \E f \in FaultChoice :
        LET inner == RevokeError(t, f)
            c == [Idle EXCEPT !.op = "logout", !.tok = t, !.cause = inner,
                              !.flags = IF HasRow(t) /\ ~Valid(Row(t)) THEN {"terminal"} ELSE {}]
        IN  /\ CountFault(f)
            /\ sessions' = IF inner # <<>> THEN sessions ELSE RevokeOne(t)
            /\ Answer(c, IF inner # <<>> THEN LogoutError(inner) ELSE MsgOk, f)
    /\ UNCHANGED <<users, now, nextToken, issued, hist>>

\* The account's tokens that are VALID.
ValidTokensOf(u) == {r.token : r \in {x \in sessions : x.userId = u /\ Valid(x)}}

\* logoutAll: revokeAllUserTokens(userId)
LogoutAll(u) ==
    /\ Started
    /\ \E f \in FaultChoice :
        /\ CountFault(f)
        /\ sessions' = IF f THEN sessions ELSE RevokeAllOf(u)
        /\ hist' = IF f THEN hist
                   ELSE [hist EXCEPT !.loggedOutAll = @ \cup ValidTokensOf(u)]
        /\ Answer([Idle EXCEPT !.op = "logoutAll", !.uid = u],
                  IF f THEN MsgRevokeAllFailed ELSE MsgOk, f)
    /\ UNCHANGED <<users, now, nextToken, issued>>

\* ---------------------------------------------------------- changePassword
\* A changePassword that stores the new password without validating it.
ChangePasswordCheckNoStrength(u, cur, new) ==
    IF u \notin DOMAIN users THEN MsgUserNotFound
    ELSE IF ~verifyPassword(cur, users[u].password) THEN MsgCurrentIncorrect
    ELSE <<>>

\* What changePassword decides from the row findUserById returned (<<>>: go
\* on): `if (!user)`, verifyPassword(currentPassword, user.password),
\* validatePasswordStrength(newPassword)
ChangePasswordCheck(u, cur, new) ==
    IF u \notin DOMAIN users THEN MsgUserNotFound
    ELSE IF ~verifyPassword(cur, users[u].password) THEN MsgCurrentIncorrect
    ELSE IF ~validatePasswordStrength(new).isValid
         THEN MsgWeakPassword \o validatePasswordStrength(new).errors
    ELSE <<>>

\* The facts of a changePassword call: is there such an account, is the
\* current password the account's, does the new one satisfy the policy.
ChangePasswordFacts(u, cur, new) ==
    IF u \notin DOMAIN users THEN <<"unknown-account">>
    ELSE << "known-account",
            IF verifyPassword(cur, users[u].password)
            THEN "right-current" ELSE "wrong-current",
            IF PasswordErrors(new) = <<>> THEN "strong-new" ELSE "weak-new" >>

\* changePassword up to its first store write: findUserById, verifyPassword of
\* the current password, validatePasswordStrength of the new one
ChangePasswordFind(p, u, cur, new) ==
    /\ Started
    /\ Free(p)
    /\ \E f \in FaultChoice :
        LET msg == IF f THEN MsgFindIdFailed ELSE ChangePasswordCheck(u, cur, new)
            c == [Idle EXCEPT !.op = "changePassword", !.uid = u,
                              !.cause = IF f THEN MsgDbFault
                                        ELSE ChangePasswordFacts(u, cur, new)]
        IN  /\ CountFault(f)
            /\ IF msg # <<>>
               THEN Return(p, c, msg, f)
               ELSE Goto(p, [c EXCEPT !.pc = "c_update", !.pw = new])
    /\ UNCHANGED <<users, sessions, now, nextToken, issued, hist>>

\* A changePassword that goes on to revoke the sessions without writing the
\* new hash.
ChangePasswordUpdateSkipped(p) ==
    /\ UNCHANGED <<ops, clock, gate, resp, wire, pwd>>
    /\ call[p].pc = "c_update"
    /\ Goto(p, [call[p] EXCEPT !.pc = "c_revoke", !.pw = <<>>])
    /\ UNCHANGED <<users, faults, sessions, now, nextToken, issued, hist>>

\* changePassword: hashPassword(newPassword), then updateUserPassword
ChangePasswordUpdate(p) ==
    /\ UNCHANGED <<ops, clock, gate, resp, wire, pwd>>
    /\ call[p].pc = "c_update"
    /\ \E f \in FaultChoice :
        /\ CountFault(f)
        /\ IF f \/ UserGone(call[p].uid)
           THEN /\ Return(p, call[p], IF f THEN MsgUpdatePwFailed ELSE MsgUserNotFound, f)
                /\ UNCHANGED users
           ELSE /\ users' = [users EXCEPT ![call[p].uid].password = hashPassword(call[p].pw)]
                /\ Goto(p, [call[p] EXCEPT !.pc = "c_revoke", !.pw = <<>>])
    /\ UNCHANGED <<sessions, now, nextToken, issued, hist>>

\* A changePassword that leaves the account's sessions alone.
ChangePasswordSessionsKept(u) == sessions

\* What changePassword does to the store after the password update.
ChangePasswordSessions(u) == RevokeAllOf(u)

\* changePassword: revokeAllUserTokens(userId), then it returns
ChangePasswordRevoke(p) ==
    /\ UNCHANGED <<ops, clock, gate, resp, wire, pwd>>
    /\ call[p].pc = "c_revoke"
    /\ \E f \in FaultChoice :
        /\ CountFault(f)
        /\ IF f
           THEN /\ Return(p, call[p], MsgRevokeAllFailed, TRUE)
                /\ UNCHANGED <<sessions, hist>>
           ELSE /\ sessions' = ChangePasswordSessions(call[p].uid)
                /\ hist' = [hist EXCEPT
                        !.pwChanged = @ \cup {t \in DOMAIN issued : issued[t].owner = call[p].uid}]
                /\ Return(p, call[p], MsgOk, FALSE)
    /\ UNCHANGED <<users, now, nextToken, issued>>

\* -------------------------------------------------------- auth middleware
\* validateUserToken after verifyAccessToken, with no check of isActive.
PrincipalErrorUnchecked(u) ==
    IF u \notin DOMAIN users THEN MsgUserNotFound ELSE <<>>

\* validateUserToken after verifyAccessToken: findUserById, then isActive
PrincipalError(u) ==
    IF u \notin DOMAIN users THEN MsgUserNotFound
    ELSE IF ~users[u].isActive THEN MsgDeactivated
    ELSE <<>>

\* validateUserToken(tok): the message it throws (<<>>: it returns the user);
\* f: findUserById threw
validateUserToken(tok, f) ==
    IF verifyAccessToken(tok, clock) # <<>> THEN verifyAccessToken(tok, clock)
    ELSE IF f THEN MsgFindIdFailed
    ELSE PrincipalError(tok.userId)

\* The access tokens clients hold: those returned with a refresh token, a
\* forged one and a string that is no JWT.
AccessPresentable ==
    {generateAccessToken(issued[t].owner, issued[t].iat) :
        t \in {x \in DOMAIN issued : issued[x].given}}
    \cup {ForgedToken, GarbageToken}

\* The Authorization headers a client sends, split at the blanks.
Headers ==
    {<<>>, <<"Bearer">>, <<"Basic", GarbageToken>>, <<"Bearer", EmptyToken>>}
    \cup {<<"Bearer", t>> : t \in AccessPresentable}

\* What a request or a handshake carries: a header alone or with a stray
\* query parameter or cookie beside it, a query parameter with or without a
\* header and a cookie beside it, a cookie alone or under an empty bearer.
\* handshake.auth exists on sockets only.
Credentials ==
    [auth : {NoAccessToken}, header : Headers,
     query : {NoAccessToken, GarbageToken}, cookie : {NoAccessToken, GarbageToken}]
    \cup [auth : {NoAccessToken}, header : {<<>>, <<"Bearer", GarbageToken>>},
          query : AccessPresentable, cookie : {NoAccessToken, GarbageToken}]
    \cup [auth : {NoAccessToken}, header : {<<>>, <<"Bearer", EmptyToken>>},
          query : {NoAccessToken}, cookie : AccessPresentable]

\* A handshake that carries its token in handshake.auth.
AuthCredentials ==
    [auth : AccessPresentable, header : {<<>>},
     query : {NoAccessToken, GarbageToken}, cookie : {NoAccessToken}]

\* The token a middleware goes on with: `if (!token)` treats null and the
\* empty string alike.
Chosen(tok) == IF Truthy(tok) THEN tok ELSE NoAccessToken

\* What was the case when the middleware handled token tok.
GateFacts(tok, f) ==
    (IF tok.sig = "good" THEN {"genuine"} ELSE {})
    \cup (IF tok.sig = "good" /\ clock < tok.iat + AccessTtlUnits THEN {"live"} ELSE {})
    \cup (IF tok.sig = "good" /\ clock >= tok.iat + AccessTtlUnits THEN {"expired"} ELSE {})
    \cup (IF tok.userId \in DOMAIN users /\ ~users[tok.userId].isActive
          THEN {"inactive"} ELSE {})
    \cup (IF tok.sig = "good" /\ tok.userId \notin DOMAIN users THEN {"gone"} ELSE {})
    \cup (IF f THEN {"faulted"} ELSE {})

\* The middleware of one transport handles what a client sent: tok is the
\* token its extractor chose.
Authorize(transport, creds, tok) ==
    /\ Counted
    /\ \E f \in (IF Truthy(tok) /\ verifyAccessToken(tok, clock) = <<>>
                 THEN FaultChoice ELSE {FALSE}) :
        LET msg == IF Truthy(tok) THEN validateUserToken(tok, f) ELSE <<>>
            answer == IF transport = "http" THEN RequireAuthResponse(tok, msg)
                      ELSE SocketAuthResponse(tok, msg)
            shared == [creds EXCEPT !.auth = NoAccessToken]
        IN  /\ CountFault(f)
            /\ gate' = [transport |-> transport, token |-> tok,
                        agree |-> Chosen(extractToken(shared)) = Chosen(extractTokenFromSocket(shared)),
                        facts |-> GateFacts(tok, f), error |-> msg,
                        status |-> answer.status, code |-> answer.code,
                        user |-> IF answer.code = "OK" THEN tok.userId ELSE 0]
    /\ UNCHANGED <<users, sessions, now, nextToken, call, last, issued, hist, clock,
                   resp, wire, pwd>>

\* requireAuth(req, res, next)
RequireAuth(creds) ==
    Authorize("http", creds, extractToken(creds))

\* authenticateSocket(socket, next)
AuthenticateSocket(creds) ==
    Authorize("socket", creds, extractTokenFromSocket(creds))

\* ---------------------------------------------------- socket event wrappers
SocketIds == {1, 2}
WindowsTried == {1000, 2500}
Advances == {500, 1000}

\* Math.ceil(a / b) for b > 0
Ceil(a, b) == 0 - ((0 - a) \div b)

\* A guard that looks at socket.isAuthenticated alone.
SocketAuthorizedByFlag(isAuthenticated, user) == isAuthenticated = "true"

\* requireSocketAuth: !(!socket.isAuthenticated || !socket.user); user 0 is
\* undefined.
SocketAuthorized(isAuthenticated, user) == isAuthenticated = "true" /\ user # 0

\* An event reaches a handler wrapped by requireSocketAuth; the wrapper's
\* first argument has the given isAuthenticated and user.
GuardedEvent(s, isAuthenticated, user) ==
    /\ wire' = [wire EXCEPT !.event =
            [wrapper |-> "requireSocketAuth", socket |-> s,
             isAuthenticated |-> isAuthenticated, user |-> user,
             invoked |-> SocketAuthorized(isAuthenticated, user),
             emitted |-> IF SocketAuthorized(isAuthenticated, user) THEN <<>>
                         ELSE <<"UNAUTHORIZED">>,
             retryAfter |-> 0]]
    /\ UNCHANGED <<users, sessions, now, nextToken, faults, call, last, issued, hist,
                   ops, clock, gate, resp, pwd>>

\* What a client sends with a chat:message or chat:join event, as far as the
\* wrapper reads it: an ordinary { message, room } object has neither
\* property; a crafted one carries isAuthenticated: true and a user.
Payloads ==
    {[isAuthenticated |-> "undefined", user |-> 0],
     [isAuthenticated |-> "true", user |-> 1]}

\* An event arrives on a connection that authenticateSocket has accepted.
\* The connection handler registers the wrapped handler with socket.on, and
\* socket.on calls its listener with the event's payload: the wrapper's first
\* argument, which it reads isAuthenticated and user from, is the payload.
\* In the refusing branch payload.emit is no function and the wrapper throws
\* a TypeError: no error event is emitted.
ChatEvent(payload) ==
    /\ gate.transport = "socket"
    /\ gate.code = "OK"
    /\ wire' = [wire EXCEPT !.event =
            [wrapper |-> "chat:message", socket |-> gate.user,
             isAuthenticated |-> payload.isAuthenticated, user |-> payload.user,
             invoked |-> SocketAuthorized(payload.isAuthenticated, payload.user),
             emitted |-> <<>>, retryAfter |-> 0]]
    /\ UNCHANGED <<users, sessions, now, nextToken, faults, call, last, issued, hist,
                   ops, clock, gate, resp, pwd>>

\* rateLimitSocket(maxEvents, windowMs): the Map is created empty
MakeLimiter(maxEvents, windowMs) ==
    /\ ~wire.made
    /\ wire' = [wire EXCEPT !.made = TRUE, !.maxEvents = maxEvents, !.windowMs = windowMs]
    /\ UNCHANGED <<users, sessions, now, nextToken, faults, call, last, issued, hist,
                   ops, clock, gate, resp, pwd>>

\* An event of socket s reaches a handler wrapped by the limiter.
LimitedEvent(s) ==
    /\ wire.made
    /\ Len(wire.log) < MaxWireEvents
    /\ LET fresh == s \notin DOMAIN wire.limits \/ wire.time > wire.limits[s].resetTime
           full == ~fresh /\ wire.limits[s].count >= wire.maxEvents
           limits == IF fresh
                     THEN [x \in DOMAIN wire.limits \cup {s} |->
                             IF x = s THEN [count |-> 1,
                                            resetTime |-> wire.time + wire.windowMs]
                             ELSE wire.limits[x]]
                     ELSE IF full THEN wire.limits
                     ELSE [wire.limits EXCEPT ![s].count = @ + 1]
       IN  wire' = [wire EXCEPT
                !.limits = limits,
                !.log = Append(@, [socket |-> s, at |-> wire.time, invoked |-> ~full]),
                !.event = [wrapper |-> "rateLimitSocket", socket |-> s,
                           isAuthenticated |-> "undefined", user |-> 0,
                           invoked |-> ~full,
                           emitted |-> IF full THEN <<"RATE_LIMIT_EXCEEDED">> ELSE <<>>,
                           retryAfter |-> IF full
                                          THEN Ceil(wire.limits[s].resetTime - wire.time, 1000)
                                          ELSE 0]]
    /\ UNCHANGED <<users, sessions, now, nextToken, faults, call, last, issued, hist,
                   ops, clock, gate, resp, pwd>>

\* Date.now() moves on.
Advance(d) ==
    /\ wire.time + d <= MaxWireTime
    /\ wire' = [wire EXCEPT !.time = @ + d]
    /\ UNCHANGED <<users, sessions, now, nextToken, faults, call, last, issued, hist,
                   ops, clock, gate, resp, pwd>>

\* ------------------------------------------------------ password validation
\* The result of validatePasswordStrength(password), kept with its argument.
Validated(password) ==
    [checked |-> TRUE, input |-> password,
     isValid |-> validatePasswordStrength(password).isValid,
     errors |-> validatePasswordStrength(password).errors]

\* validatePasswordStrength on a password of the test suite
ValidateListed(password) ==
    /\ ~pwd.checked
    /\ pwd' = Validated(password)
    /\ UNCHANGED <<users, sessions, now, nextToken, faults, call, last, issued, hist,
                   ops, clock, gate, resp, wire>>

\* validatePasswordStrength on a password put together from parts
ValidateBuilt(l, u, d, sp, rp, pat, n) ==
    /\ ~pwd.checked
    /\ pwd' = Validated(BuiltPassword(l, u, d, sp, rp, pat, n))
    /\ UNCHANGED <<users, sessions, now, nextToken, faults, call, last, issued, hist,
                   ops, clock, gate, resp, wire>>

\* ------------------------------------------------------ authenticated routes
\* What the clients of the REST routes send: a bearer header or nothing.
RouteCredentials ==
    [auth : {NoAccessToken}, header : {<<>>} \cup {<<"Bearer", t>> : t \in AccessPresentable},
     query : {NoAccessToken}, cookie : {NoAccessToken}]

\* The routes whose chain of handlers begins with requireAuth.  The auth
\* router is mounted bare and POST /logout-all names no middleware.
AuthMounted ==
    {"GET /api/protected", "PUT /api/users/:id", "DELETE /api/users/:id"}

\* req.user when the route's own handler runs (0: undefined), and what
\* requireAuth answered when it ended the request (code "OK": it did not).
RouteAuth(route, creds, f) ==
    LET tok == extractToken(creds)
        msg == IF Truthy(tok) THEN validateUserToken(tok, f) ELSE <<>>
        answer == RequireAuthResponse(tok, msg)
    IN  IF route \notin AuthMounted
        THEN [user |-> 0, status |-> 200, code |-> "OK"]
        ELSE [user |-> IF answer.code = "OK" THEN tok.userId ELSE 0,
              status |-> answer.status, code |-> answer.code]

\* The store calls in which requireAuth's findUserById may throw.
AuthFaultChoice(route, creds) ==
    IF /\ route \in AuthMounted
       /\ Truthy(extractToken(creds))
       /\ verifyAccessToken(extractToken(creds), clock) = <<>>
    THEN FaultChoice ELSE {FALSE}

\* A handler that sends no response of its own for the caller's being
\* somebody else.
OwnershipErrorNone(currentUserId, targetUserId) == ""

\* PUT and DELETE /api/users/:id: currentUserId !== targetUserId
OwnershipError(currentUserId, targetUserId) ==
    IF currentUserId # targetUserId THEN "ACCESS_DENIED" ELSE ""

\* The response of a route, as the model keeps it.
Response(route, status, code, caller, target, touched, creds) ==
    [route |-> route, status |-> status, code |-> code, caller |-> caller,
     target |-> target, touched |-> touched,
     facts |-> GateFacts(extractToken(creds), FALSE)]

\* POST /api/auth/logout-all
PostLogoutAll(creds) ==
    LET route == "POST /api/auth/logout-all"
        auth == RouteAuth(route, creds, FALSE)
        owner == extractToken(creds).userId
    IN  /\ Counted
        /\ IF auth.user = 0
           THEN /\ resp' = Response(route, 401, "UNAUTHORIZED", 0, owner, FALSE, creds)
                /\ UNCHANGED <<sessions, hist, faults>>
           ELSE \E f \in FaultChoice :
                /\ CountFault(f)
                /\ sessions' = IF f THEN sessions ELSE RevokeAllOf(auth.user)
                /\ hist' = IF f THEN hist
                           ELSE [hist EXCEPT !.loggedOutAll = @ \cup ValidTokensOf(auth.user)]
                /\ resp' = IF f THEN Response(route, 500, "LOGOUT_ALL_FAILED", auth.user,
                                              owner, TRUE, creds)
                           ELSE Response(route, 200, "OK", auth.user, owner, TRUE, creds)
        /\ UNCHANGED <<users, now, nextToken, call, last, issued, clock, gate, wire, pwd>>

\* PUT /api/users/:id with a body that sets the email
PutUser(creds, id, e) ==
    LET route == "PUT /api/users/:id"
    IN  /\ Counted
        /\ \E fa \in AuthFaultChoice(route, creds) :
            LET auth == RouteAuth(route, creds, fa)
            IN  IF auth.code # "OK"
                THEN /\ CountFault(fa)
                     /\ resp' = Response(route, auth.status, auth.code, 0, id, FALSE, creds)
                     /\ UNCHANGED users
                ELSE IF OwnershipError(auth.user, id) # ""
                THEN /\ CountFault(fa)
                     /\ resp' = Response(route, 403, OwnershipError(auth.user, id),
                                         auth.user, id, FALSE, creds)
                     /\ UNCHANGED users
                ELSE \E f \in FaultChoice :
                     /\ CountFault(f)
                     /\ IF f
                        THEN /\ resp' = Response(route, 500, "USER_UPDATE_FAILED",
                                                 auth.user, id, TRUE, creds)
                             /\ UNCHANGED users
                        ELSE IF UserGone(id)
                        THEN /\ resp' = Response(route, 404, "USER_NOT_FOUND",
                                                 auth.user, id, TRUE, creds)
                             /\ UNCHANGED users
                        ELSE IF \E u \in DOMAIN users : u # id /\ users[u].email = e
                        THEN /\ resp' = Response(route, 409, "EMAIL_ALREADY_EXISTS",
                                                 auth.user, id, TRUE, creds)
                             /\ UNCHANGED users
                        ELSE /\ resp' = Response(route, 200, "OK", auth.user, id, TRUE, creds)
                             /\ users' = [users EXCEPT ![id].email = e]
        /\ UNCHANGED <<sessions, now, nextToken, call, last, issued, hist, clock, gate,
                       wire, pwd>>

\* DELETE /api/users/:id
DeleteUserById(creds, id) ==
    LET route == "DELETE /api/users/:id"
    IN  /\ Counted
        /\ \E fa \in AuthFaultChoice(route, creds) :
            LET auth == RouteAuth(route, creds, fa)
            IN  IF auth.code # "OK"
                THEN /\ CountFault(fa)
                     /\ resp' = Response(route, auth.status, auth.code, 0, id, FALSE, creds)
                     /\ UNCHANGED <<users, sessions>>
                ELSE IF OwnershipError(auth.user, id) # ""
                THEN /\ CountFault(fa)
                     /\ resp' = Response(route, 403, OwnershipError(auth.user, id),
                                         auth.user, id, FALSE, creds)
                     /\ UNCHANGED <<users, sessions>>
                ELSE \E f \in FaultChoice :
                     /\ CountFault(f)
                     /\ IF f
                        THEN /\ resp' = Response(route, 500, "USER_DELETE_FAILED",
                                                 auth.user, id, TRUE, creds)
                             /\ UNCHANGED <<users, sessions>>
                        ELSE IF UserGone(id)
                        THEN /\ resp' = Response(route, 404, "USER_NOT_FOUND",
                                                 auth.user, id, TRUE, creds)
                             /\ UNCHANGED <<users, sessions>>
                        ELSE /\ resp' = Response(route, 200, "OK", auth.user, id, TRUE, creds)
                             /\ users' = [x \in DOMAIN users \ {id} |-> users[x]]
                             /\ sessions' = {r \in sessions : r.userId # id}
        /\ UNCHANGED <<now, nextToken, call, last, issued, hist, clock, gate, wire, pwd>>

\* deleteUser(id); the user's refresh tokens go with the row (onDelete: Cascade)
DeleteUser(u) ==
    /\ UNCHANGED <<ops, resp, wire, pwd>>
    /\ u \in DOMAIN users
    /\ users' = [x \in DOMAIN users \ {u} |-> users[x]]
    /\ sessions' = {r \in sessions : r.userId # u}
    /\ UNCHANGED <<now, nextToken, faults, call, last, issued, hist, clock, gate>>

\* Five minutes pass.
ClockTick ==
    /\ UNCHANGED <<ops, resp, wire, pwd>>
    /\ clock < MaxClock
    /\ clock' = clock + 1
    /\ UNCHANGED <<users, sessions, now, nextToken, faults, call, last, issued, hist, gate>>

\* ------------------------------------------------------------- environment
\* cleanupExpiredTokens: one deleteMany
Cleanup ==
    /\ UNCHANGED <<ops, clock, gate, resp, wire, pwd>>
    /\ \E f \in FaultChoice :
        /\ CountFault(f)
        /\ sessions' = IF f THEN sessions ELSE {r \in sessions : ~Purgeable(r)}
    /\ UNCHANGED <<users, now, nextToken, call, last, issued, hist>>

\* deactivateUser / activateUser
SetActive(u, b) ==
    /\ UNCHANGED <<ops, clock, gate, resp, wire, pwd>>
    /\ u \in DOMAIN users
    /\ users[u].isActive # b
    /\ users' = [users EXCEPT ![u].isActive = b]
    /\ UNCHANGED <<sessions, now, nextToken, faults, call, last, issued, hist>>

\* Time passes.
Tick ==
    /\ UNCHANGED <<ops, clock, gate, resp, wire, pwd>>
    /\ now < MaxTime
    /\ now' = now + 1
    /\ UNCHANGED <<users, sessions, nextToken, faults, call, last, issued, hist>>

Next ==
    \/ \E p \in Calls, t \in Presentable : RefreshValidate(p, t)
    \/ \E p \in Calls : RefreshFindUser(p)
    \/ \E p \in Calls : RefreshRevoke(p)
    \/ \E p \in Calls : RefreshStore(p)
    \/ \E p \in Calls, e \in Emails, pw \in LoginPasswords : LoginFind(p, e, pw)
    \/ \E p \in Calls : LoginStore(p)
    \/ \E p \in Calls : LoginLast(p)
    \/ \E p \in Calls, e \in Emails, pw \in RegisterPasswords : RegisterCheck(p, e, pw)
    \/ \E p \in Calls : RegisterCreate(p)
    \/ \E p \in Calls : RegisterStore(p)
    \/ \E p \in Calls : RegisterLast(p)
    \/ \E t \in Presentable : Logout(t)
    \/ \E u \in UserIds : LogoutAll(u)
    \/ \E p \in Calls, u \in UserIds, cur \in {StrongPass}, new \in {StrongPass} :
            ChangePasswordFind(p, u, cur, new)
    \/ \E p \in Calls : ChangePasswordUpdate(p)
    \/ \E p \in Calls : ChangePasswordRevoke(p)
    \/ Cleanup
    \/ \E u \in UserIds, b \in BOOLEAN : SetActive(u, b)
    \/ Tick

Spec == Init /\ [][Next]_vars

\* Clients register, log out and call the routes that need a logged-in user.
NextRoute ==
    \/ \E p \in Calls, e \in Emails, pw \in {StrongPass} : RegisterCheck(p, e, pw)
    \/ \E p \in Calls : RegisterCreate(p)
    \/ \E p \in Calls : RegisterStore(p)
    \/ \E p \in Calls : RegisterLast(p)
    \/ \E t \in Presentable : Logout(t)
    \/ \E creds \in RouteCredentials : RequireAuth(creds)
    \/ \E creds \in RouteCredentials : PostLogoutAll(creds)
    \/ \E creds \in RouteCredentials, id \in UserIds, e \in Emails : PutUser(creds, id, e)
    \/ \E creds \in RouteCredentials, id \in UserIds : DeleteUserById(creds, id)

RouteSpec == Init /\ [][NextRoute]_vars

\* validatePasswordStrength is called on a password.
NextPassword ==
    \/ \E password \in ListedPasswords : ValidateListed(password)
    \/ \E l, u, d, sp, rp \in BOOLEAN, pat \in PatternParts, n \in LengthsTried :
            ValidateBuilt(l, u, d, sp, rp, pat, n)

PasswordSpec == Init /\ [][NextPassword]_vars

\* Socket events arrive at wrapped handlers while time passes.
NextSocket ==
    \/ \E a \in {"true", "false", "undefined"}, u \in {0, 1} : GuardedEvent(1, a, u)
    \/ \E m \in 0..MaxEventsTried, w \in WindowsTried : MakeLimiter(m, w)
    \/ \E s \in SocketIds : LimitedEvent(s)
    \/ \E d \in Advances : Advance(d)

SocketSpec == Init /\ [][NextSocket]_vars

\* The prisma call that the call in slot p awaits never settles: no await of
\* the services or the repository is raced against a timer, so the call stays
\* at its await.
Hang(p) ==
    /\ call[p].pc \notin {"idle", "hung"}
    /\ call' = [call EXCEPT ![p].pc = "hung"]
    /\ UNCHANGED <<users, sessions, now, nextToken, faults, last, issued, hist,
                   ops, clock, gate, resp, wire, pwd>>

\* The operations whose first await is a prisma call.
HangingOps == {"login", "authorize", "refresh", "logout", "logoutAll"}

\* A call of op starts and its first prisma call never settles.
HangAtOnce(p, op) ==
    /\ Free(p)
    /\ Started
    /\ call' = [call EXCEPT ![p] = [Idle EXCEPT !.op = op, !.pc = "hung"]]
    /\ UNCHANGED <<users, sessions, now, nextToken, faults, last, issued, hist>>

\* The continuation of the call in slot p once the promise it awaits settles.
Continue(p) ==
    \/ RefreshFindUser(p)
    \/ RefreshRevoke(p)
    \/ RefreshStore(p)
    \/ LoginStore(p)
    \/ LoginLast(p)
    \/ RegisterCreate(p)
    \/ RegisterStore(p)
    \/ RegisterLast(p)

\* Clients register, log in, refresh and log out against a store that may
\* leave a call without an answer.
NextLive ==
    \/ \E p \in Calls, t \in Presentable : RefreshValidate(p, t)
    \/ \E p \in Calls, e \in {"a@x"}, pw \in {StrongPass} : LoginFind(p, e, pw)
    \/ \E p \in Calls, e \in {"a@x"}, pw \in {StrongPass} : RegisterCheck(p, e, pw)
    \/ \E p \in Calls : Continue(p)
    \/ \E t \in Presentable : Logout(t)
    \/ \E u \in UserIds : LogoutAll(u)
    \/ \E p \in Calls : Hang(p)
    \/ \E p \in Calls, op \in HangingOps : HangAtOnce(p, op)

\* The event loop runs the continuation of every promise that has settled.
LiveSpec == Init /\ [][NextLive]_vars /\ \A p \in Calls : WF_vars(Continue(p))

\* Accounts are registered, deactivated and deleted while clients bring access
\* tokens to the two transports and the clock runs through a token's lifetime.
NextAccess ==
    \/ \E p \in Calls, e \in {"a@x"}, pw \in {StrongPass} : RegisterCheck(p, e, pw)
    \/ \E p \in Calls : RegisterCreate(p)
    \/ \E p \in Calls : RegisterStore(p)
    \/ \E p \in Calls : RegisterLast(p)
    \/ \E u \in UserIds, b \in BOOLEAN : SetActive(u, b)
    \/ \E u \in UserIds : DeleteUser(u)
    \/ \E creds \in Credentials : RequireAuth(creds)
    \/ \E creds \in Credentials \cup AuthCredentials : AuthenticateSocket(creds)
    \/ ClockTick

AccessSpec == Init /\ [][NextAccess]_vars

\* One account is registered, logs in, changes its password, refreshes, is
\* deactivated and is deleted, while the sessions' time passes.
NextAccount ==
    \/ \E p \in Calls, e \in {"a@x"}, pw \in {StrongPass} : RegisterCheck(p, e, pw)
    \/ \E p \in Calls : RegisterCreate(p)
    \/ \E p \in Calls : RegisterStore(p)
    \/ \E p \in Calls : RegisterLast(p)
    \/ \E p \in Calls, e \in {"a@x"}, pw \in LoginPasswords : LoginFind(p, e, pw)
    \/ \E p \in Calls : LoginStore(p)
    \/ \E p \in Calls : LoginLast(p)
    \/ \E p \in Calls, t \in Presentable : RefreshValidate(p, t)
    \/ \E p \in Calls : RefreshFindUser(p)
    \/ \E p \in Calls : RefreshRevoke(p)
    \/ \E p \in Calls : RefreshStore(p)
    \/ \E p \in Calls, u \in UserIds, cur \in LoginPasswords, new \in {OtherPass, WeakPass} :
            ChangePasswordFind(p, u, cur, new)
    \/ \E p \in Calls : ChangePasswordUpdate(p)
    \/ \E p \in Calls : ChangePasswordRevoke(p)
    \/ \E u \in UserIds, b \in BOOLEAN : SetActive(u, b)
    \/ \E u \in UserIds : DeleteUser(u)
    \/ Tick

AccountSpec == Init /\ [][NextAccount]_vars

\* Two sessions are open: token 1 is of account 1 and token 2 is of account
\* owner, each as register or login has returned it.
TwoSessions(owner) ==
    /\ users = [u \in UserIds |->
                    [email |-> IF u = 1 THEN "a@x" ELSE "b@x",
                     password |-> hashPassword(StrongPass), isActive |-> TRUE]]
    /\ sessions = {NewRow(1, 1), NewRow(owner, 2)}
    /\ issued = [t \in {1, 2} |->
                    [owner |-> IF t = 1 THEN 1 ELSE owner, parent |-> NoToken,
                     given |-> TRUE, iat |-> 0]]
    /\ nextToken = 3

\* The state in which the clients of two open sessions begin to call; the
\* calls counted are theirs.
PairInit ==
    /\ now = 0
    /\ \E owner \in UserIds : TwoSessions(owner)
    /\ faults = MaxFaults
    /\ call = [p \in Calls |-> Idle]
    /\ last = NoResult
    /\ hist = [loggedOutAll |-> {}, pwChanged |-> {}]
    /\ ops = 0
    /\ clock = 0
    /\ gate = NoGate
    /\ resp = NoResponse
    /\ wire = NoWire
    /\ pwd = NoPassword

\* No call has been made on token t.
Untouched(t) ==
    /\ ops < 2
    /\ \A p \in Calls : call[p].tok # t
    /\ last.tok # t

\* Each of the two sessions gets one call, a refreshTokens or a logout, and
\* the two calls overlap as they may.
NextPair ==
    \/ \E p \in Calls, t \in {1, 2} : Untouched(t) /\ RefreshValidate(p, t)
    \/ \E p \in Calls : RefreshFindUser(p)
    \/ \E p \in Calls : RefreshRevoke(p)
    \/ \E p \in Calls : RefreshStore(p)
    \/ \E t \in {1, 2} : Untouched(t) /\ Logout(t)

PairSpec == PairInit /\ [][NextPair]_vars

\* A client registers and connects a socket; the account is deactivated or
\* deleted, its sessions are revoked and the access token's life ends while
\* events arrive on the connection.
NextConn ==
    \/ \E p \in Calls, e \in {"a@x"}, pw \in {StrongPass} : RegisterCheck(p, e, pw)
    \/ \E p \in Calls : RegisterCreate(p)
    \/ \E p \in Calls : RegisterStore(p)
    \/ \E p \in Calls : RegisterLast(p)
    \/ \E creds \in AuthCredentials : AuthenticateSocket(creds)
    \/ \E u \in UserIds, b \in BOOLEAN : SetActive(u, b)
    \/ \E u \in UserIds : DeleteUser(u)
    \/ \E t \in Presentable : Logout(t)
    \/ \E u \in UserIds : LogoutAll(u)
    \/ ClockTick
    \/ \E payload \in Payloads : ChatEvent(payload)

ConnSpec == Init /\ [][NextConn]_vars

\* ------------------------------------------------------------------ claims
\* The tokens stored by a successful rotation of t.
Successors(t) == {x \in DOMAIN issued : issued[x].parent = t}

\* The login or register token at which the rotation chain of t began.
Root[t \in DOMAIN issued] ==
    IF issued[t].parent = NoToken THEN t ELSE Root[issued[t].parent]

\* The last call to return was a refreshTokens call.
RefreshReturned == last.op = "refresh"

\* The last call to return was a login whose attempt had the fact k.
LoginReturned(k) == last.op = "login" /\ k \in Range(last.cause)

\* An email no account is registered under.
UnknownEmail == "nobody@x"

\* The one response POST /api/auth/refresh gives for an unusable token.
InvalidRefreshResponse ==
    [status |-> 401, code |-> "INVALID_REFRESH_TOKEN",
     message |-> "Invalid or expired refresh token"]

\* C1: of two refreshTokens calls that overlap on one valid token exactly one
\* succeeds: a token is rotated into one successor only, and the call that
\* finds its token already rotated by the other does not succeed.
C1_OneRotationWins ==
    /\ \A t \in RotatedOut : Cardinality(Successors(t)) = 1
    /\ (RefreshReturned /\ "lostRace" \in last.flags) => last.res # MsgOk

\* C2: under any interleaving, every rotation chain (a login or register token
\* and everything rotated from it) holds at most one VALID session.
C2_OneValidPerChain ==
    \A c \in DOMAIN issued :
        Cardinality({r \in sessions : Valid(r) /\ Root[r.token] = c}) <= 1

\* C3, replay: a refreshTokens call on a token that an earlier call has
\* already rotated fails, with the invalid-refresh-token error (401).
C3_ReplayRejected ==
    (RefreshReturned /\ "rotatedOut" \in last.flags)
        => /\ last.res = MsgInvalidRefresh
           /\ RefreshResponse(last.res) = InvalidRefreshResponse

\* C3, the successor rotates: a refreshTokens call on a token that came out of
\* a rotation and was valid when presented succeeds, unless the store threw,
\* the account is inactive or gone, or the row was deleted under the call.
C3_SuccessorRotates ==
    (/\ RefreshReturned
     /\ last.cause = <<>>
     /\ issued[last.tok].parent # NoToken
     /\ ~last.faulted
     /\ "rowMissing" \notin last.flags
     /\ last.res \notin {MsgDeactivated, MsgUserNotFound})
        => last.res = MsgOk

\* C3, the step of a successful rotation: the token it returns is accepted by
\* validateRefreshToken in the state it returns in, and the token it was given
\* is not.
C3_RotationStep ==
    (last' # last /\ last'.op = "refresh" /\ last'.res = MsgOk)
        => /\ (ValidateCause(last.out) = <<>>)'
           /\ (ValidateCause(last.tok) # <<>>)'

\* C3: rotate(t0) gives t1; replaying t0 fails; rotating t1 succeeds.
C3_SequentialReplay ==
    /\ [](C3_ReplayRejected /\ C3_SuccessorRotates)
    /\ [][C3_RotationStep]_vars

\* C3 happens: a replayed token has been refused.
C3_Witness ==
    /\ RefreshReturned
    /\ "rotatedOut" \in last.flags
    /\ last.res = MsgInvalidRefresh
    /\ \E x \in Successors(last.tok) : ValidateCause(x) = <<>>

\* C4: a refreshTokens call that fails has changed nothing: it has not revoked
\* the token it was given.
C4_RotationAllOrNothing ==
    (RefreshReturned /\ last.res # MsgOk) => "revokedOld" \notin last.flags

\* C5: session state only moves forward.  In every step, for every token ever
\* issued: a revoked row stays revoked, a row keeps its expiry and its owner,
\* a deleted row does not come back, and a token validateRefreshToken rejects
\* is rejected in the next state too.
C5_Step ==
    \A t \in DOMAIN issued :
        /\ (HasRow(t) /\ HasRow(t)')
            => /\ Row(t).isRevoked => Row(t)'.isRevoked
               /\ Row(t)'.expiresAt = Row(t).expiresAt
               /\ Row(t)'.userId = Row(t).userId
        /\ ~HasRow(t) => ~HasRow(t)'
        /\ ValidateCause(t) # <<>> => (ValidateCause(t) # <<>>)'

C5_Monotonic == [][C5_Step]_vars

\* C5 happens: refreshTokens has refused a token whose row is revoked or expired.
C5_Witness ==
    /\ RefreshReturned
    /\ last.cause \in {MsgTokenRevoked, MsgTokenExpired}
    /\ HasRow(last.tok)
    /\ last.res # MsgOk

\* C6, the account's tokens: a token that was valid when logoutAll revoked the
\* account's sessions is never valid again, and refreshTokens refuses it with
\* the invalid-refresh-token error.
C6_TokensDead ==
    /\ \A t \in hist.loggedOutAll : ValidateCause(t) # <<>>
    /\ (RefreshReturned /\ "loggedOutAll" \in last.flags)
        => /\ last.res = MsgInvalidRefresh
           /\ RefreshResponse(last.res) = InvalidRefreshResponse

\* C6, the step of logoutAll: the rows of every other account are the same
\* before and after, and when it succeeds every row of the account is revoked.
C6_LogoutAllStep ==
    (ops' = ops + 1 /\ call' = call /\ last'.op = "logoutAll")
        => /\ {r \in sessions : r.userId # last'.uid}
                = {r \in sessions' : r.userId # last'.uid}
           /\ last'.res = MsgOk
                => \A r \in sessions' : r.userId = last'.uid => r.isRevoked

\* C6: after logoutAll every previously valid token of the account fails
\* refresh, and the sessions of other accounts are unaffected.
C6_LogoutAll ==
    /\ []C6_TokensDead
    /\ [][C6_LogoutAllStep]_vars

\* C6 happens: a token revoked by logoutAll was presented and refused.
C6_Witness ==
    /\ RefreshReturned
    /\ "loggedOutAll" \in last.flags
    /\ last.res = MsgInvalidRefresh

\* C7: once changePassword has succeeded, no token the account held before is
\* valid, and refreshTokens refuses each with the invalid-refresh-token error.
C7_PasswordChangeRevokes ==
    /\ \A t \in hist.pwChanged : ValidateCause(t) # <<>>
    /\ (RefreshReturned /\ "pwChanged" \in last.flags)
        => last.res = MsgInvalidRefresh

\* C7 happens: a token from before a password change was presented and refused.
C7_Witness ==
    /\ RefreshReturned
    /\ "pwChanged" \in last.flags
    /\ last.res = MsgInvalidRefresh
    /\ HasRow(last.tok)

\* C8: a login with a wrong password for a registered email gets the response
\* a login with an unregistered email gets: same status, code and message.
C8_SameLoginFailure ==
    LoginReturned("wrong-password")
        => LoginResponse(last.res) = LoginResponse(LoginCheck(UnknownEmail, OtherPass))

\* C9: login answers ACCOUNT_DEACTIVATED only to a caller who has given the
\* account's password.
C9_DeactivatedAfterProof ==
    (last.op = "login" /\ LoginResponse(last.res).code = "ACCOUNT_DEACTIVATED")
        => LoginReturned("right-password")

\* C10: refreshTokens fails in one and the same way whether the token has no
\* row, is revoked or is expired: one message, one 401 response.
C10_OneRefreshError ==
    (RefreshReturned /\ last.cause \in {MsgTokenNotFound, MsgTokenRevoked, MsgTokenExpired})
        => /\ last.res = MsgInvalidRefresh
           /\ RefreshResponse(last.res) = InvalidRefreshResponse

\* C10 happens: an expired token with an unrevoked row was presented.
C10_Witness ==
    /\ RefreshReturned
    /\ last.cause = MsgTokenExpired
    /\ HasRow(last.tok)
    /\ ~Row(last.tok).isRevoked
    /\ last.res = MsgInvalidRefresh

\* C11: refreshTokens on a valid token whose account is inactive fails as it
\* does for an absent, revoked or expired token: the invalid-refresh-token
\* message and 401 response, not an account-deactivated one.
C11_InactiveIsSessionInvalid ==
    (RefreshReturned /\ "inactiveOwner" \in last.flags)
        => /\ last.res = MsgInvalidRefresh
           /\ RefreshResponse(last.res) = InvalidRefreshResponse

\* C14: logout never raises.  Whatever token it is given (valid, revoked,
\* expired, unknown), and also when the store's revoke fails, logout returns
\* normally and POST /api/auth/logout answers 200 with success.
C14_LogoutNeverRaises ==
    last.op = "logout"
        => /\ last.res = MsgOk
           /\ LogoutResponse(last.res).status = 200
           /\ LogoutResponse(last.res).success

\* C14 happens: logout has returned after the store's revoke threw.
C14_Witness ==
    /\ last.op = "logout"
    /\ last.faulted
    /\ last.cause = MsgRevokeFailed
    /\ HasRow(last.tok)
    /\ last.res = MsgOk

\* C15: revokeRefreshToken is idempotent: called by a logout whose store call
\* did not fail, it completes without error whether the token has a valid
\* row, an already revoked row or no row at all.
C15_RevokeIdempotent ==
    (last.op = "logout" /\ ~last.faulted) => last.cause = <<>>

\* C16: the purge removes only records that have been terminal for longer
\* than the retention window.  While the clock still shows the instant the
\* run began, no record has been revoked or expired for any time at all, so
\* every record ever stored is still in the store.
C16_PurgeKeepsFresh ==
    now = 0 => \A t \in DOMAIN issued : HasRow(t)

\* The auth middleware of one of the two transports has handled something.
GateActed == gate.transport # "none"

\* C12: authorize yields no principal for an account whose isActive is false
\* when the call reads it; with a correctly signed, unexpired token and a
\* store that answers, the call fails with ACCOUNT_DEACTIVATED (403 on HTTP).
C12_InactiveNeverAuthorized ==
    (GateActed /\ "inactive" \in gate.facts)
        => /\ gate.user = 0
           /\ gate.code # "OK"
           /\ ("live" \in gate.facts /\ "faulted" \notin gate.facts)
                => /\ gate.code = "ACCOUNT_DEACTIVATED"
                   /\ gate.transport = "http" => gate.status = 403

\* C12 happens: a handshake with a good token of a deactivated account was refused.
C12_Witness ==
    /\ gate.transport = "socket"
    /\ {"live", "inactive"} \subseteq gate.facts
    /\ gate.code = "ACCOUNT_DEACTIVATED"
    /\ gate.user = 0

\* C13: from the same header, query parameter and cookie, the HTTP middleware
\* and the socket handshake middleware choose the same token to validate.
C13_SameTokenBothTransports ==
    GateActed => gate.agree

\* C17: an access token is accepted at every time before iat + TTL (when the
\* store answers and the account is there and active) and refused with
\* INVALID_TOKEN (401 on HTTP) at every time from iat + TTL on.
C17_AccessTokenLifetime ==
    /\ (GateActed /\ "live" \in gate.facts
            /\ gate.facts \cap {"faulted", "inactive", "gone"} = {})
        => /\ gate.code = "OK"
           /\ gate.user = gate.token.userId
    /\ (GateActed /\ "expired" \in gate.facts)
        => /\ gate.code = "INVALID_TOKEN"
           /\ gate.user = 0
           /\ gate.transport = "http" => gate.status = 401

\* C17 happens: a token was refused in the very unit of time its life ended.
C17_Witness ==
    /\ GateActed
    /\ "expired" \in gate.facts
    /\ clock = gate.token.iat + AccessTtlUnits
    /\ gate.code = "INVALID_TOKEN"

\* C18: verifyAccessToken fails on a correctly signed, expired token with
\* "Token expired", not with the "Invalid token" of a malformed or wrongly
\* signed one.
C18_ExpiredIsDistinct ==
    (GateActed /\ "expired" \in gate.facts)
        => /\ gate.error = MsgAccessExpired
           /\ gate.error # verifyAccessToken(GarbageToken, clock)

\* C19: when the store answers, an authorize that fails fails with one of
\* MISSING_TOKEN, INVALID_TOKEN, ACCOUNT_DEACTIVATED and nothing else.
C19_ThreeFailures ==
    (GateActed /\ gate.code # "OK" /\ "faulted" \notin gate.facts)
        => gate.code \in {"MISSING_TOKEN", "INVALID_TOKEN", "ACCOUNT_DEACTIVATED"}

\* C20: every call that has started returns to its caller, also when a
\* persistence call of it never answers.
C20_EveryCallReturns ==
    \A p \in Calls : (call[p].pc # "idle") ~> (call[p].pc = "idle")

\* C23: no row of the session store holds, in its token field, a refresh
\* token that register, login or refreshTokens has returned to a client.
C23_NoPlaintextTokens ==
    \A r \in sessions : r.token \notin {t \in DOMAIN issued : issued[t].given}

\* The tokens from which t came by rotation.
Ancestors[t \in DOMAIN issued] ==
    IF issued[t].parent = NoToken THEN {}
    ELSE {issued[t].parent} \cup Ancestors[issued[t].parent]

\* The tokens whose revocation by logoutAll or changePassword has completed,
\* and the one whose logout was the last call to return.
RevocationDone ==
    hist.loggedOutAll \cup hist.pwChanged
    \cup (IF last.op = "logout" /\ last.cause = <<>> /\ ~last.faulted /\ HasRow(last.tok)
          THEN {last.tok} ELSE {})

\* A refreshTokens call on a token whose revocation has completed does not
\* return success.
C30_Step ==
    \A p \in Calls :
        (call[p].op = "refresh" /\ call[p].pc # "idle" /\ call'[p].pc = "idle"
            /\ call[p].tok \in RevocationDone)
        => last'.res # MsgOk

\* With no refreshTokens call in flight, no VALID session descends from a
\* token that logoutAll or changePassword has revoked.
C30_NoValidDescendant ==
    (\A p \in Calls : call[p].op # "refresh")
        => \A d \in DOMAIN issued :
              (Ancestors[d] \cap (hist.loggedOutAll \cup hist.pwChanged) # {})
                  => ~(HasRow(d) /\ Valid(Row(d)))

\* C30: once logout(t), logoutAll or changePassword has revoked t, no
\* refreshTokens(t) call that returns afterwards succeeds, also when it had
\* validated t before the revocation, and no VALID session descends from t
\* once the calls have finished.
C30_RevocationIsFinal ==
    /\ []C30_NoValidDescendant
    /\ [][C30_Step]_vars

\* C26: no two accounts bear one email, and a register call that fails
\* because its email has an account (no store call failed, the password was
\* strong) is answered 409 EMAIL_ALREADY_EXISTS, also when two register calls
\* for one new email race.
C26_DuplicateEmailIs409 ==
    /\ \A u, v \in DOMAIN users : users[u].email = users[v].email => u = v
    /\ (last.op = "register" /\ last.res # MsgOk /\ ~last.faulted
            /\ RegisterResponse(last.res).code # "WEAK_PASSWORD")
        => /\ RegisterResponse(last.res).status = 409
           /\ RegisterResponse(last.res).code = "EMAIL_ALREADY_EXISTS"

\* C21: POST /api/auth/logout-all with a bearer access token that is
\* correctly signed, unexpired and of an active account answers 200 and
\* leaves every refresh session of that account revoked.
C21_LogoutAllRoute ==
    (resp.route = "POST /api/auth/logout-all"
        /\ {"genuine", "live"} \subseteq resp.facts
        /\ resp.facts \cap {"inactive", "gone"} = {}
        /\ resp.code # "LOGOUT_ALL_FAILED")
    => /\ resp.status = 200
       /\ resp.code = "OK"
       /\ \A r \in sessions : r.userId = resp.target => r.isRevoked

\* The refresh tokens that were returned together with access token tok.
IssuedWith(tok) ==
    {t \in DOMAIN issued :
        issued[t].owner = tok.userId /\ issued[t].iat = tok.iat /\ issued[t].given}

\* requireAuth lets a request through only if a session that its access token
\* was issued with is still unrevoked.
C22_Step ==
    (ops' = ops + 1 /\ gate' # gate /\ gate'.code = "OK")
        => \E t \in IssuedWith(gate'.token) : HasRow(t) /\ ~Row(t).isRevoked

\* C22: once logout(refreshToken) has revoked a session, authorize with the
\* access token that was issued together with that refresh token fails.
C22_LogoutKillsAccessToken == [][C22_Step]_vars

\* PUT and DELETE /api/users/:id.
UserIdRoutes == {"PUT /api/users/:id", "DELETE /api/users/:id"}

\* A request to one of the two routes changes or removes no account but the
\* authenticated caller's.
C27_Step ==
    (ops' = ops + 1 /\ call' = call /\ last' = last /\ gate' = gate
        /\ resp'.route \in UserIdRoutes)
    => \A u \in DOMAIN users :
          (u \notin DOMAIN users' \/ users'[u] # users[u])
              => (u = resp'.caller /\ u = resp'.target)

\* An authenticated caller other than :id gets 403 ACCESS_DENIED and
\* updateUser / deleteUser is not invoked.
C27_ForeignDenied ==
    resp.route \in UserIdRoutes
        => /\ (resp.caller # 0 /\ resp.caller # resp.target)
                => /\ resp.status = 403
                   /\ resp.code = "ACCESS_DENIED"
                   /\ ~resp.touched
           /\ resp.touched => (resp.caller # 0 /\ resp.caller = resp.target)

C24_ListedPasswords ==
    pwd.checked
        => /\ pwd.input \in RefusedPasswords => ~pwd.isValid
           /\ pwd.input = PwStrong => (pwd.isValid /\ pwd.errors = <<>>)

\* The rules a password breaks, each taken by itself.
BrokenRules(password) ==
    {rule \in {"min-length", "max-length", "lowercase", "uppercase", "number",
               "special", "repeated", "common-pattern"} :
        \/ rule = "min-length" /\ Len(password) < 8
        \/ rule = "max-length" /\ Len(password) > 128
        \/ rule = "lowercase" /\ \A i \in DOMAIN password : password[i] \notin Range(LowerChars)
        \/ rule = "uppercase" /\ \A i \in DOMAIN password : password[i] \notin Range(UpperChars)
        \/ rule = "number" /\ \A i \in DOMAIN password : password[i] \notin DigitChars
        \/ rule = "special" /\ \A i \in DOMAIN password : password[i] \notin SpecialChars
        \/ rule = "repeated"
              /\ \E i, j \in DOMAIN password :
                    j >= i + 2 /\ \A k \in i..j : password[k] = password[i]
        \/ rule = "common-pattern"
              /\ \E pat \in WeakPatterns, i \in DOMAIN password :
                    /\ i + Len(pat) - 1 <= Len(password)
                    /\ LowerSeq(SubSeq(password, i, i + Len(pat) - 1)) = pat}

\* C25: validatePasswordStrength evaluates all eight rules and returns one
\* error for every rule the password breaks, not only the first; isValid is
\* true exactly when there is no error.
C25_EveryViolation ==
    pwd.checked
        => /\ Range(pwd.errors) = BrokenRules(pwd.input)
           /\ Len(pwd.errors) = Cardinality(BrokenRules(pwd.input))
           /\ pwd.isValid <=> pwd.errors = <<>>

\* C25 happens: a password that breaks several rules got an error for each.
C25_Witness ==
    /\ pwd.checked
    /\ Cardinality(BrokenRules(pwd.input)) >= 3
    /\ Len(pwd.errors) >= 3
    /\ ~pwd.isValid

ServedInWindow(s) ==
    {i \in DOMAIN wire.log :
        /\ wire.log[i].socket = s
        /\ wire.log[i].invoked
        /\ wire.log[i].at >= wire.limits[s].resetTime - wire.windowMs
        /\ wire.log[i].at <= wire.limits[s].resetTime}

\* Per socket: at most maxEvents handler runs in a window, a stored count of
\* at most maxEvents, and a refused event gets RATE_LIMIT_EXCEEDED with a
\* retryAfter of 0 or more.
C29_Window ==
    /\ \A s \in DOMAIN wire.limits :
          /\ Cardinality(ServedInWindow(s)) <= wire.maxEvents
          /\ wire.limits[s].count <= wire.maxEvents
    /\ wire.event.wrapper = "rateLimitSocket"
          => /\ wire.event.invoked => wire.event.emitted = <<>>
             /\ ~wire.event.invoked
                  => /\ wire.event.emitted = <<"RATE_LIMIT_EXCEEDED">>
                     /\ wire.event.retryAfter >= 0

\* The first event of a socket after its resetTime starts a new window with
\* count 1 and runs the handler.
C29_Step ==
    \A s \in DOMAIN wire.limits :
        (Len(wire.log') = Len(wire.log) + 1 /\ wire.event'.socket = s
            /\ wire.time > wire.limits[s].resetTime)
        => /\ wire.limits'[s] = [count |-> 1, resetTime |-> wire.time + wire.windowMs]
           /\ wire.event'.invoked

\* C29: rateLimitSocket(maxEvents, windowMs), per socket id, runs the handler
\* for at most maxEvents events of a window, answers every further event of
\* the window with RATE_LIMIT_EXCEEDED and a non-negative retryAfter without
\* running the handler, never stores a count above maxEvents, and starts a
\* new window with count 1 at the first event after resetTime.
C29_RateLimit ==
    /\ []C29_Window
    /\ [][C29_Step]_vars

\* The last call to return was a refreshTokens call that found its token
\* absent, revoked or expired, or its account missing or inactive.
RefreshRefused ==
    /\ RefreshReturned
    /\ \/ last.cause \in {MsgTokenNotFound, MsgTokenRevoked, MsgTokenExpired}
       \/ last.flags \cap {"missingOwner", "inactiveOwner"} # {}

\* Such a call has failed, has revoked nothing and has stored nothing.
C31_NothingWritten ==
    RefreshRefused
        => /\ last.res # MsgOk
           /\ "revokedOld" \notin last.flags
           /\ last.out = NoToken

\* The step in which such a call returns leaves the session store as it was.
C31_Step ==
    (last' # last /\ RefreshRefused')
        => /\ sessions' = sessions
           /\ issued' = issued

\* C31: a refreshTokens call that fails because the token is absent, revoked
\* or expired, or because the owning account is missing or inactive, creates,
\* revokes and deletes no session record.
C31_RefusedRefreshKeepsStore ==
    /\ []C31_NothingWritten
    /\ [][C31_Step]_vars

\* C31 happens: the account was deleted under a call that had validated its
\* token, and the call failed.
C31_Witness ==
    /\ RefreshReturned
    /\ last.cause = <<>>
    /\ "missingOwner" \in last.flags
    /\ last.res = MsgUserNotFound

\* A refreshTokens call that found its token's row when it validated it finds
\* the row again when it revokes it: rows leave the store through the purge
\* only, and the purge does not take a row from under a call.
C32_RowStaysUnderCall ==
    (RefreshReturned /\ last.cause = <<>>) => "rowMissing" \notin last.flags

\* No step deletes the row of an unrevoked, unexpired session.
C32_Step ==
    \A r \in sessions : Valid(r) => HasRow(r.token)'

\* C32: a cleanupExpiredTokens run between the store steps of a
\* refreshTokens, logout or logoutAll call does not change that call's
\* outcome, and a purge never deletes an unrevoked, unexpired session.
C32_PurgeIsSafe ==
    /\ []C32_RowStaysUnderCall
    /\ [][C32_Step]_vars

\* The rows of the session that began with token t: its own and its successors'.
SessionRows(t) ==
    {r \in sessions : r.token = t \/ issued[r.token].parent = t}

\* This step is a step of the call on token t.
Acts(t) ==
    \/ \E p \in Calls : call[p].tok = t /\ call'[p] # call[p]
    \/ \E p \in Calls : call[p].pc = "idle" /\ call'[p].tok = t
    \/ call' = call /\ last' # last /\ last'.tok = t

\* A step of the call on one session leaves the rows of the other session and
\* the call on the other session as they were.
C33_Frame ==
    \A t \in {1, 2} :
        Acts(t) => /\ SessionRows(3 - t)' = SessionRows(3 - t)
                   /\ \A p \in Calls : call[p].tok = 3 - t => call'[p] = call[p]

\* While the store answers every call, a call returns what it returns when it
\* runs alone: success, with the session's token revoked and, for a
\* refreshTokens, one VALID successor of the same account.
C33_Result ==
    (last' # last /\ faults' = MaxFaults)
        => /\ last'.res = MsgOk
           /\ \E r \in sessions' : r.token = last'.tok /\ r.isRevoked
           /\ last'.op = "refresh"
                => /\ {x \in DOMAIN issued' : issued'[x].parent = last'.tok} = {last'.out}
                   /\ \E r \in sessions' :
                         /\ r.token = last'.out
                         /\ ~r.isRevoked
                         /\ ~Expired(r, now')
                         /\ r.userId = issued[last'.tok].owner
           /\ last'.op = "logout"
                => {x \in DOMAIN issued' : issued'[x].parent = last'.tok} = {}

\* Both calls have returned and the store has answered every call.
PairDone ==
    /\ ops = 2
    /\ \A p \in Calls : call[p].pc = "idle"
    /\ faults = MaxFaults

\* The store the two calls leave, whatever their order: both tokens revoked,
\* at most one successor each, every successor VALID, nothing else.
C33_FinalStore ==
    PairDone
        => /\ \A t \in {1, 2} :
                /\ HasRow(t) /\ Row(t).isRevoked
                /\ Cardinality(Successors(t)) <= 1
                /\ \A x \in Successors(t) :
                      HasRow(x) /\ Valid(Row(x)) /\ Row(x).userId = issued[t].owner
           /\ sessions = SessionRows(1) \cup SessionRows(2)
           /\ SessionRows(1) \cap SessionRows(2) = {}

\* C33: for two valid refresh tokens of different sessions, every
\* interleaving of refreshTokens(tA) with refreshTokens(tB) or logout(tB)
\* gives the results and the final store (up to the fresh token values) of
\* running the two calls one after the other.
C33_SessionsIndependent ==
    /\ []C33_FinalStore
    /\ [][C33_Frame /\ C33_Result]_vars

\* C33 happens: two refreshTokens calls on different sessions of one account
\* overlapped and both have returned.
C33_Witness ==
    /\ PairDone
    /\ issued[1].owner = issued[2].owner
    /\ Successors(1) # {}
    /\ Successors(2) # {}
    /\ \E x \in Successors(1), y \in Successors(2) : x > y

\* The responses requireAuth sends when it ends a request.
RequireAuthFailures ==
    {<<401, "MISSING_TOKEN">>, <<401, "INVALID_TOKEN">>, <<401, "USER_NOT_FOUND">>,
     <<403, "ACCOUNT_DEACTIVATED">>, <<500, "AUTH_ERROR">>}

\* C34: requireAuth calls next() if and only if a token was extracted and
\* validateUserToken succeeded, and then req.user is the token's user; on
\* every failure it sends one of 401 MISSING_TOKEN, 401 INVALID_TOKEN, 401
\* USER_NOT_FOUND, 403 ACCOUNT_DEACTIVATED, 500 AUTH_ERROR, each for its own
\* cause, leaves req.user unset and does not call next().
C34_RequireAuth ==
    (GateActed /\ gate.transport = "http")
        => /\ gate.code = "OK" <=> (Truthy(gate.token) /\ gate.error = <<>>)
           /\ gate.code = "OK"
                => /\ gate.user = gate.token.userId
                   /\ gate.facts \cap {"gone", "inactive", "faulted"} = {}
           /\ gate.code # "OK"
                => /\ gate.user = 0
                   /\ <<gate.status, gate.code>> \in RequireAuthFailures
           /\ gate.code = "MISSING_TOKEN" <=> ~Truthy(gate.token)
           /\ gate.code = "INVALID_TOKEN"
                <=> (Truthy(gate.token) /\ "live" \notin gate.facts)
           /\ gate.code = "USER_NOT_FOUND" => "gone" \in gate.facts
           /\ gate.code = "ACCOUNT_DEACTIVATED" => "inactive" \in gate.facts
           /\ gate.code = "AUTH_ERROR" => "faulted" \in gate.facts

\* C34 happens: findUserById threw under requireAuth and the request was
\* answered 500 AUTH_ERROR.
C34_Witness ==
    /\ gate.transport = "http"
    /\ "faulted" \in gate.facts
    /\ gate.status = 500
    /\ gate.code = "AUTH_ERROR"
    /\ gate.user = 0

\* C35: whenever login or register returns an error to its caller, that call
\* has created no refresh session: with no call in flight, every row of the
\* session store holds a token that was returned to a client.
C35_NoSessionOnError ==
    (\A p \in Calls : call[p].pc = "idle")
        => \A r \in sessions : issued[r.token].given

\* A changePassword call of account u has succeeded.
PwChangedFor(u) == \E t \in hist.pwChanged : issued[t].owner = u

\* Once a changePassword from StrongPass to OtherPass has succeeded for an
\* active account, login decides for the new password and against the old one.
C36_NewPasswordOnly ==
    \A u \in DOMAIN users :
        (PwChangedFor(u) /\ users[u].isActive)
            => /\ LoginCheck(users[u].email, OtherPass) = <<>>
               /\ LoginCheck(users[u].email, StrongPass) = MsgInvalidCredentials
               /\ LoginResponse(LoginCheck(users[u].email, StrongPass)).code
                      = "INVALID_CREDENTIALS"

\* A login with the stored password of an active account succeeds when the
\* store answers and the account is still there; one with another password
\* fails with "Invalid credentials".
C36_LoginFollows ==
    /\ (LoginReturned("right-password") /\ LoginReturned("active")
            /\ ~last.faulted /\ ~UserGone(last.uid))
        => last.res = MsgOk
    /\ (LoginReturned("wrong-password") /\ LoginReturned("active"))
        => last.res = MsgInvalidCredentials

\* C36: after changePassword(accountId, current, new) has succeeded, login
\* with the account's email and the new password succeeds and login with the
\* old password fails with InvalidCredentials.
C36_LoginAfterChange ==
    C36_NewPasswordOnly /\ C36_LoginFollows

\* C36 happens: after a password change, a login with the old password was
\* refused.
C36_Witness ==
    /\ LoginReturned("wrong-password")
    /\ last.res = MsgInvalidCredentials
    /\ \E u \in DOMAIN users :
          /\ PwChangedFor(u)
          /\ users[u].isActive
          /\ users[u].password = hashPassword(OtherPass)

\* The facts for which changePassword fails before it writes.
ChangeRefusals == {"unknown-account", "wrong-current", "weak-new"}

\* A changePassword call goes on to its writes only for an existing account,
\* the right current password and a new password that satisfies the policy;
\* otherwise it fails.
C37_WritesOnlyWhenChecked ==
    /\ \A p \in Calls :
          (call[p].op = "changePassword" /\ call[p].pc \in {"c_update", "c_revoke"})
              => Range(call[p].cause) \cap ChangeRefusals = {}
    /\ (last.op = "changePassword" /\ Range(last.cause) \cap ChangeRefusals # {})
          => \/ last.res \in {MsgUserNotFound, MsgCurrentIncorrect}
             \/ Includes(last.res, <<"Password", "validation", "failed">>)

\* The step in which such a call fails changes no account and no session.
C37_Step ==
    (last' # last /\ last'.op = "changePassword"
        /\ Range(last'.cause) \cap ChangeRefusals # {})
    => /\ users' = users
       /\ sessions' = sessions

\* C37: when changePassword fails because the account does not exist, the
\* current password is wrong or the new password violates the strength
\* policy, the stored password hash and every refresh session of the account
\* are unchanged.
C37_FailedChangeKeepsAll ==
    /\ []C37_WritesOnlyWhenChecked
    /\ [][C37_Step]_vars

\* C37 happens: a change to a weak password was refused for an account that
\* has a session.
C37_Witness ==
    /\ last.op = "changePassword"
    /\ "right-current" \in Range(last.cause)
    /\ "weak-new" \in Range(last.cause)
    /\ Includes(last.res, MsgWeakPassword)
    /\ \E r \in sessions : r.userId = last.uid /\ Valid(r)
    /\ users[last.uid].password = hashPassword(StrongPass)

\* The account that authenticated for the rotation chain of token t: the one
\* whose login or register stored the chain's first token.
Authenticated(t) == issued[Root[t]].owner

\* The access token that was returned together with refresh token t.
AccessTokenWith(t) == generateAccessToken(issued[t].owner, issued[t].iat)

\* C38: the session a successful refreshTokens(t) creates belongs to the
\* account of t's session and the access token returned with it carries that
\* account's id; every session and every access token is of the account that
\* authenticated at the start of its chain.
C38_RotationKeepsOwner ==
    /\ \A t \in DOMAIN issued :
          /\ issued[t].parent # NoToken => issued[t].owner = issued[issued[t].parent].owner
          /\ issued[t].owner = Authenticated(t)
          /\ AccessTokenWith(t).userId = Authenticated(t)
          /\ HasRow(t) => Row(t).userId = Authenticated(t)
    /\ (RefreshReturned /\ last.res = MsgOk)
          => /\ issued[last.out].parent = last.tok
             /\ issued[last.out].owner = issued[last.tok].owner
             /\ last.uid = issued[last.tok].owner
             /\ HasRow(last.out) => Row(last.out).userId = issued[last.tok].owner

\* C38 happens: with two accounts registered, the second one's token was
\* rotated and the successor's row is the second account's.
C38_Witness ==
    /\ RefreshReturned
    /\ last.res = MsgOk
    /\ Cardinality(DOMAIN users) = 2
    /\ issued[last.tok].owner = 2
    /\ HasRow(last.out)
    /\ Row(last.out).userId = 2

\* socket.user and socket.isAuthenticated, which the handshake's outcome holds,
\* change in a handshake only.
C39_Frame ==
    gate' # gate => (ops' = ops + 1 /\ gate'.transport = "socket")

\* An event on a connection that authenticateSocket accepted reaches its
\* wrapped handler.
C39_Invoked ==
    wire.event.wrapper = "chat:message" => wire.event.invoked

\* C39: socket.user and socket.isAuthenticated are written by the handshake
\* middleware only, so once authenticateSocket has accepted a connection the
\* requireSocketAuth-wrapped handlers keep being invoked for that socket,
\* whatever happens to the account, its sessions or its access token.
C39_HandlersKeepRunning ==
    /\ []C39_Invoked
    /\ [][C39_Frame]_vars

====
